---- MODULE Spec2Model ----
(***************************************************************************)
(* CampusHireAI: the shortlisting run of backend/shortlisting.py over the  *)
(* tables it reads and writes (users, drives, applications, offers,        *)
(* resume_metadata).                                                       *)
(*                                                                         *)
(* Numbers.  Scores are kept in units of 1e-4 (Scale), the precision of    *)
(* the round(.., 4) calls, so 0.74 is 7400.  A CGPA is kept in units of    *)
(* 1e-4 grade points (8.5 is 85000) and a package in tenths of an LPA      *)
(* (6.0 is 60).  Unrounded intermediate values are exact fractions.        *)
(***************************************************************************)
EXTENDS Integers, Sequences, FiniteSets, TLC

VARIABLES users, drives, applications, offers, resume_metadata, run, outbox,
          gap, classifier, extraction, skills, requests

vars == <<users, drives, applications, offers, resume_metadata, run, outbox,
          gap, classifier, extraction, skills, requests>>

\* What each group of operations leaves alone.
shortlisting_vars ==
  <<users, drives, applications, offers, resume_metadata, run, outbox, requests>>
parser_vars == <<classifier, extraction, skills>>

\* ---------------------------------------------------------------- bounds
NumStudents == 3
MaxTopN == 2
MaxInvocations == 2

\* ------------------------------------------------------------- constants
Scale == 10000
CgpaScaleDivisor == 10
SkillWeight == 6
CgpaWeight == 4
WeightDenominator == 10
OfferRatio == 17
OfferRatioDenominator == 10

Students == 1..NumStudents

\* Optional values (Python None / a value).
None == <<>>
Some(x) == <<x>>
IsNone(o) == o = <<>>
ValueOf(o) == o[1]

\* ------------------------------------------------------------ str.lower()
LowerTable ==
  [s \in {"Python", "PYTHON", "python", "SQL", "Sql", "sql", "React", "react"} |->
     CASE s \in {"Python", "PYTHON", "python"} -> "python"
       [] s \in {"SQL", "Sql", "sql"} -> "sql"
       [] OTHER -> "react"]

Lower(s) == LowerTable[s]

\* Variant: the list is compared as written (case-sensitive).
AsWritten(list) == list

LowerAll(list) == [i \in 1..Len(list) |-> Lower(list[i])]

\* ------------------------------------------------------- round(x, ndigits)
\* Nearest integer to a/b (b > 0), ties to even.
RoundDiv(a, b) ==
  LET q == a \div b
      r == a % b
  IN  IF 2 * r < b THEN q
      ELSE IF 2 * r > b THEN q + 1
      ELSE IF q % 2 = 0 THEN q ELSE q + 1

\* ------------------------------------------------------------ eligibility
\* Variant: the comparison is inverted.
CgpaAboveEligibility(student_cgpa, eligibility_cgpa) ==
  student_cgpa > eligibility_cgpa

\* student_cgpa < eligibility_cgpa
CgpaBelowEligibility(student_cgpa, eligibility_cgpa) ==
  student_cgpa < eligibility_cgpa

\* offers ... order("package", desc=True).limit(1); 0 when there is none
RECURSIVE MaxOf(_)
MaxOf(S) ==
  LET x == CHOOSE y \in S : TRUE
  IN  IF S = {x} THEN x
      ELSE LET m == MaxOf(S \ {x}) IN IF x > m THEN x ELSE m

BestOffer(student_id) ==
  IF offers[student_id] = {} THEN 0 ELSE MaxOf(offers[student_id])

\* Is the offer filter consulted at all
OfferFilterActive(apply_offer_filter, drive_package) ==
  apply_offer_filter /\ drive_package > 0

\* Variant: an offer of exactly package / 1.7 is already too high.
OfferTooHighInclusive(best_offer, drive_package) ==
  /\ best_offer > 0
  /\ best_offer * OfferRatio >= drive_package * OfferRatioDenominator

\* Variant: the ratio is applied to the package instead of the offer.
OfferTooHighRatioOnPackage(best_offer, drive_package) ==
  /\ best_offer > 0
  /\ best_offer * OfferRatioDenominator > drive_package * OfferRatio

\* best_offer > 0 and (best_offer * 1.7) > drive_package
OfferTooHigh(best_offer, drive_package) ==
  /\ best_offer > 0
  /\ best_offer * OfferRatio > drive_package * OfferRatioDenominator

\* ---------------------------------------------------------------- scoring
\* The unrounded skill score as a fraction <<numerator, denominator>>.
SkillScore(required_lower, extracted_lower) ==
  IF Len(required_lower) > 0
  THEN LET InExtracted(s) == \E j \in 1..Len(extracted_lower) : extracted_lower[j] = s
           matched == SelectSeq(required_lower, InExtracted)
       IN  <<Len(matched), Len(required_lower)>>
  ELSE <<1, 1>>

\* round(skill_score, 4)
RoundedSkillScore(skill_score) == RoundDiv(skill_score[1] * Scale, skill_score[2])

\* round(student_cgpa / 10.0, 4)
RoundedCgpaScore(student_cgpa) == RoundDiv(student_cgpa, CgpaScaleDivisor)

\* Variant: the combination is taken on the two rounded scores.
FinalScoreOfRounded(skill_score, student_cgpa) ==
  RoundDiv(SkillWeight * RoundDiv(skill_score[1] * Scale, skill_score[2])
             + CgpaWeight * RoundDiv(student_cgpa, CgpaScaleDivisor),
           WeightDenominator)

\* round(0.6 * skill_score + 0.4 * cgpa_score, 4) on the unrounded scores
FinalScore(skill_score, student_cgpa) ==
  RoundDiv(SkillWeight * skill_score[1] * Scale * CgpaScaleDivisor
             + CgpaWeight * student_cgpa * skill_score[2],
           WeightDenominator * CgpaScaleDivisor * skill_score[2])

\* ---------------------------------------------------------------- ranking
\* list.sort(key=final_score, reverse=True): descending and stable.
\* Variant: the new element goes before the elements of equal score.
RECURSIVE InsertByScoreUnstable(_, _)
InsertByScoreUnstable(sorted, c) ==
  IF sorted = <<>> THEN <<c>>
  ELSE IF Head(sorted).final_score > c.final_score
       THEN <<Head(sorted)>> \o InsertByScoreUnstable(Tail(sorted), c)
       ELSE <<c>> \o sorted

RECURSIVE InsertByScore(_, _)
InsertByScore(sorted, c) ==
  IF sorted = <<>> THEN <<c>>
  ELSE IF Head(sorted).final_score >= c.final_score
       THEN <<Head(sorted)>> \o InsertByScore(Tail(sorted), c)
       ELSE <<c>> \o sorted

RECURSIVE SortByFinalScore(_)
SortByFinalScore(cs) ==
  IF cs = <<>> THEN <<>>
  ELSE InsertByScore(SortByFinalScore(SubSeq(cs, 1, Len(cs) - 1)), cs[Len(cs)])

\* Variant: a score equal to the threshold does not qualify.
ShortlistConditionStrict(final_score, threshold, top_n, i) ==
  /\ final_score > threshold
  /\ (IsNone(top_n) \/ i < ValueOf(top_n))

\* Variant: the cap is off by one (i <= top_n).
ShortlistConditionOffByOne(final_score, threshold, top_n, i) ==
  /\ final_score >= threshold
  /\ (IsNone(top_n) \/ i <= ValueOf(top_n))

\* candidate["final_score"] >= threshold and (top_n is None or i < top_n)
ShortlistCondition(final_score, threshold, top_n, i) ==
  /\ final_score >= threshold
  /\ (IsNone(top_n) \/ i < ValueOf(top_n))

\* ------------------------------------------------------------- the tables
\* Sign-up inputs (UserSignup.cgpa is an unconstrained Optional[float]), each
\* with the resume rows and offer rows the student has accumulated.
Profiles ==
  { [cgpa |-> Some(85000), resumes |-> << <<"PYTHON", "Sql">> >>,          offers |-> {}],
    [cgpa |-> Some(60000), resumes |-> << <<"Python", "SQL", "React">> >>, offers |-> {40}],
    [cgpa |-> Some(85000), resumes |-> << <<"Python", "SQL", "React">> >>, offers |-> {20, 40}],
    [cgpa |-> Some(81213), resumes |-> << >>,                              offers |-> {}],
    [cgpa |-> Some(120000), resumes |-> << <<"python">> >>,                offers |-> {110}],
    [cgpa |-> Some(70000), resumes |-> << <<"PYTHON">> >>,                 offers |-> {100}],
    [cgpa |-> None,        resumes |-> << >>,                              offers |-> {}] }

\* Drive rows as create_drive stores them.
DriveRows ==
  { [eligibility_cgpa |-> 70000, required_skills |-> <<"Python", "SQL", "React">>, package |-> 60],
    [eligibility_cgpa |-> 0,     required_skills |-> << >>,                        package |-> 0],
    [eligibility_cgpa |-> 70000, required_skills |-> <<"Python", "python", "SQL">>, package |-> 170] }

DriveId == 1
UnknownDriveId == 404

Thresholds == {5000, 7400}
TopNs == {None} \cup {Some(k) : k \in 1..MaxTopN}

\* The e-mail address a student signed up with.
EmailOf(student_id) == "student" \o ToString(student_id) \o "@campus.edu"

\* A worker that is not running a shortlisting request.
IdleRun ==
  [pc |-> "idle", drive_id |-> 0, threshold |-> 0, top_n |-> None,
   apply_offer_filter |-> FALSE,
   eligibility_cgpa |-> 0, required_lower |-> <<>>, drive_package |-> 0,
   applications |-> <<>>, next |-> 0,
   scored_candidates |-> <<>>, rejected_results |-> <<>>,
   shortlisted_count |-> 0, rejected_count |-> 0, results |-> <<>>, i |-> 0,
   error |-> None, http_error |-> None, result |-> None,
   started |-> {}, writes |-> <<>>, invocation |-> 0, previous |-> None]

\* No skill-gap request, no classifier call and no extraction yet.
NoGap == [pc |-> "idle"]
NoClassifier == [pc |-> "idle"]
NoExtraction == [pc |-> "idle"]
NoSkills == [pc |-> "idle"]

\* No request to apply_to_drive or mark_placed is being served.
NoRequests == <<>>

\* The state after sign-ups, drive creation, resume uploads and applications:
\* every student has applied to the drive once; the first application may
\* already have been marked Placed (mark_placed also records an offer row).
Init ==
  \E prof \in [Students -> Profiles], d \in DriveRows, first \in {"Applied", "Placed"} :
    /\ users = [s \in Students |-> [cgpa |-> prof[s].cgpa, email |-> EmailOf(s)]]
    /\ resume_metadata = [s \in Students |-> prof[s].resumes]
    /\ offers = [s \in Students |->
                   IF s = 1 /\ first = "Placed" THEN prof[s].offers \cup {0}
                   ELSE prof[s].offers]
    /\ drives = [id \in {DriveId} |-> d]
    /\ applications =
         [a \in 1..NumStudents |->
            [id |-> a, student_id |-> a, drive_id |-> DriveId,
             status |-> IF a = 1 THEN first ELSE "Applied", ai_score |-> 0]]
    /\ run = [p \in {1} |-> IdleRun]
    /\ outbox = {}
    /\ gap = NoGap
    /\ classifier = NoClassifier
    /\ extraction = NoExtraction
    /\ skills = NoSkills
    /\ requests = NoRequests

\* ------------------------------------------------------ run_shortlisting
\* Variant: the status filter is missing.
SelectAllOfDrive(apps, drive_id) ==
  SelectSeq(apps, LAMBDA a : a.drive_id = drive_id)

\* .eq("drive_id", drive_id).eq("status", "Applied")
SelectApplied(apps, drive_id) ==
  SelectSeq(apps, LAMBDA a : a.drive_id = drive_id /\ a.status = "Applied")

\* Variant: the update writes the score and leaves the status.
UpdateScoreOnly(apps, app_id, new_status, new_score) ==
  [a \in DOMAIN apps |->
     IF apps[a].id = app_id
     THEN [apps[a] EXCEPT !.ai_score = new_score]
     ELSE apps[a]]

\* Variant: the update is built but never executed.
UpdateNothing(apps, app_id, new_status, new_score) == apps

\* .update({...}).eq("id", app_id)
UpdateApplication(apps, app_id, new_status, new_score) ==
  [a \in DOMAIN apps |->
     IF apps[a].id = app_id
     THEN [apps[a] EXCEPT !.status = new_status, !.ai_score = new_score]
     ELSE apps[a]]

\* .single() on resume_metadata: the row's skills, [] when there is no row
ExtractedSkills(student_id) ==
  IF Len(resume_metadata[student_id]) = 0 THEN <<>>
  ELSE resume_metadata[student_id][1]

\* .eq("student_id", student_id).single() on resume_metadata, whatever resume
\* the application names: the row's skills, [] when there is no row.  With
\* several rows of the student single() has no one row to give: the call
\* raises, or one of the rows is taken.
ResumeLookup(app, student_id) ==
  IF Len(resume_metadata[student_id]) = 0
  THEN {[raised |-> FALSE, extracted_skills |-> <<>>]}
  ELSE IF Len(resume_metadata[student_id]) = 1
  THEN {[raised |-> FALSE, extracted_skills |-> resume_metadata[student_id][1]]}
  ELSE {[raised |-> TRUE, extracted_skills |-> <<>>]}
         \cup {[raised |-> FALSE, extracted_skills |-> resume_metadata[student_id][k]] :
                 k \in DOMAIN resume_metadata[student_id]}

\* Variant: a missing drive is replaced by an empty default row.
DriveOrDefault(drive_id) ==
  IF drive_id \in DOMAIN drives THEN Some(drives[drive_id])
  ELSE Some([eligibility_cgpa |-> 0, required_skills |-> <<>>, package |-> 0])

\* table("drives").select("*").eq("id", drive_id).single(): the row, or None
DriveLookup(drive_id) ==
  IF drive_id \in DOMAIN drives THEN Some(drives[drive_id]) ELSE None

DriveNotFound == "Drive not found"

\* Step 1: run_shortlisting is entered and the drive is fetched.  (History:
\* the number of the invocation and what the previous one returned.)
EnterRun(p, drive_id, threshold, top_n, apply_offer_filter) ==
  /\ IF IsNone(DriveLookup(drive_id))
     THEN run' = [run EXCEPT ![p] = [IdleRun EXCEPT !.pc = "error", !.drive_id = drive_id,
                     !.threshold = threshold, !.top_n = top_n,
                     !.apply_offer_filter = apply_offer_filter,
                     !.error = Some(DriveNotFound),
                     !.invocation = run[p].invocation + 1,
                     !.previous = run[p].result]]
     ELSE LET drive == ValueOf(DriveLookup(drive_id)) IN
          run' = [run EXCEPT ![p] = [IdleRun EXCEPT
                     !.invocation = run[p].invocation + 1,
                     !.previous = run[p].result,
                     !.pc = "fetch", !.drive_id = drive_id,
                     !.threshold = threshold, !.top_n = top_n,
                     !.apply_offer_filter = apply_offer_filter,
                     !.eligibility_cgpa = drive.eligibility_cgpa,
                     !.required_lower = LowerAll(drive.required_skills),
                     !.drive_package = drive.package,
                     !.started = {a \in DOMAIN applications :
                                    /\ applications[a].drive_id = drive_id
                                    /\ applications[a].status = "Applied"}]]
  /\ UNCHANGED <<users, drives, applications, offers, resume_metadata, outbox, gap, parser_vars, requests>>

\* A shortlisting request arrives at an idle worker.
RunStart(p, drive_id, threshold, top_n, apply_offer_filter) ==
  /\ run[p].pc = "idle"
  /\ EnterRun(p, drive_id, threshold, top_n, apply_offer_filter)

\* The same request is sent again after its response, nothing in between.
RequestAgain(p) ==
  /\ run[p].pc = "responded"
  /\ run[p].invocation < MaxInvocations
  /\ EnterRun(p, run[p].drive_id, run[p].threshold, run[p].top_n,
              run[p].apply_offer_filter)

\* Step 2: fetch the drive's applications that are still Applied.
FetchApplications(p) ==
  /\ run[p].pc = "fetch"
  /\ run' = [run EXCEPT ![p].applications = SelectApplied(applications, run[p].drive_id),
                        ![p].next = 1,
                        ![p].pc = "loop"]
  /\ UNCHANGED <<users, drives, applications, offers, resume_metadata, outbox, gap, parser_vars, requests>>

\* History: an update of an application row, with the stored status it replaced.
WriteEntry(app_id, new_status) ==
  [app_id |-> app_id,
   from |-> applications[CHOOSE a \in DOMAIN applications : applications[a].id = app_id].status,
   to |-> new_status]

RejectedResult(student_id, reason) ==
  [student_id |-> student_id, status |-> "Rejected", reason |-> reason, ai_score |-> 0]

CgpaReason == "CGPA below eligibility"

\* f"{value}" of a float amount held in tenths: 40 is "4.0"
FormatAmount(tenths) == ToString(tenths \div 10) \o "." \o ToString(tenths % 10)

\* f"Existing offer ({best_offer} LPA) x 1.7 > drive package ({drive_package} LPA)"
OfferReason(best_offer, drive_package) ==
  "Existing offer (" \o FormatAmount(best_offer) \o " LPA) x 1.7 > drive package ("
    \o FormatAmount(drive_package) \o " LPA)"

\* Step 3: one iteration of the loop over the fetched applications.
ProcessApplication(p) ==
  /\ run[p].pc = "loop"
  /\ run[p].next <= Len(run[p].applications)
  /\ LET r == run[p]
         app == r.applications[r.next]
         student_id == app.student_id
     IN
       IF student_id \notin DOMAIN users
       THEN \* no such student: continue
            /\ run' = [run EXCEPT ![p].next = r.next + 1]
            /\ UNCHANGED applications
       ELSE IF IsNone(users[student_id].cgpa)
       THEN \* float(None) raises TypeError: the request fails
            /\ run' = [run EXCEPT ![p].pc = "raised"]
            /\ UNCHANGED applications
       ELSE LET student_cgpa == ValueOf(users[student_id].cgpa) IN
         IF CgpaBelowEligibility(student_cgpa, r.eligibility_cgpa)
         THEN /\ applications' = UpdateApplication(applications, app.id, "Rejected", 0)
              /\ run' = [run EXCEPT
                   ![p].writes = Append(@, WriteEntry(app.id, "Rejected")),
                   ![p].rejected_results = Append(@, RejectedResult(student_id, CgpaReason)),
                   ![p].next = r.next + 1]
         ELSE IF /\ OfferFilterActive(r.apply_offer_filter, r.drive_package)
                 /\ OfferTooHigh(BestOffer(student_id), r.drive_package)
         THEN /\ applications' = UpdateApplication(applications, app.id, "Rejected", 0)
              /\ run' = [run EXCEPT
                   ![p].writes = Append(@, WriteEntry(app.id, "Rejected")),
                   ![p].rejected_results = Append(@, RejectedResult(student_id,
                                          OfferReason(BestOffer(student_id), r.drive_package))),
                   ![p].next = r.next + 1]
         ELSE \E resume \in ResumeLookup(app, student_id) :
              IF resume.raised
              THEN /\ run' = [run EXCEPT ![p].pc = "raised"]
                   /\ UNCHANGED applications
              ELSE
              LET extracted_lower == LowerAll(resume.extracted_skills)
                  skill_score == SkillScore(r.required_lower, extracted_lower)
              IN /\ run' = [run EXCEPT
                      ![p].scored_candidates = Append(@,
                          [app_id |-> app.id, student_id |-> student_id,
                           email |-> users[student_id].email,
                           cgpa |-> student_cgpa,
                           skill_score |-> RoundedSkillScore(skill_score),
                           cgpa_score |-> RoundedCgpaScore(student_cgpa),
                           final_score |-> FinalScore(skill_score, student_cgpa)]),
                      ![p].next = r.next + 1]
                 /\ UNCHANGED applications
  /\ UNCHANGED <<users, drives, offers, resume_metadata, outbox, gap, parser_vars, requests>>

\* Step 4: after the loop, sort the scored candidates and start the results.
SortCandidates(p) ==
  /\ run[p].pc = "loop"
  /\ run[p].next > Len(run[p].applications)
  /\ run' = [run EXCEPT ![p].scored_candidates = SortByFinalScore(@),
                        ![p].shortlisted_count = 0,
                        ![p].rejected_count = Len(run[p].rejected_results),
                        ![p].results = run[p].rejected_results,
                        ![p].i = 0,
                        ![p].pc = "decide"]
  /\ UNCHANGED <<users, drives, applications, offers, resume_metadata, outbox, gap, parser_vars, requests>>

\* One iteration of the loop over the sorted candidates (i is 0-based).
DecideCandidate(p) ==
  /\ run[p].pc = "decide"
  /\ run[p].i < Len(run[p].scored_candidates)
  /\ LET r == run[p]
         candidate == r.scored_candidates[r.i + 1]
         shortlist == ShortlistCondition(candidate.final_score, r.threshold, r.top_n, r.i)
         new_status == IF shortlist THEN "Shortlisted" ELSE "Rejected"
     IN /\ applications' = UpdateApplication(applications, candidate.app_id,
                                             new_status, candidate.final_score)
        /\ run' = [run EXCEPT
             ![p].writes = Append(@, WriteEntry(candidate.app_id, new_status)),
             ![p].shortlisted_count = IF shortlist THEN @ + 1 ELSE @,
             ![p].rejected_count = IF shortlist THEN @ ELSE @ + 1,
             ![p].results = Append(@,
                 [student_id |-> candidate.student_id, email |-> candidate.email,
                  cgpa |-> candidate.cgpa,
                  skill_score |-> candidate.skill_score,
                  cgpa_score |-> candidate.cgpa_score,
                  final_score |-> candidate.final_score,
                  status |-> new_status]),
             ![p].i = r.i + 1]
  /\ UNCHANGED <<users, drives, offers, resume_metadata, outbox, gap, parser_vars, requests>>

\* Variant: the rejected total counts the eligibility rejections only.
ResultDictEligibilityOnly(r) ==
  [drive_id |-> r.drive_id, threshold |-> r.threshold, top_n |-> r.top_n,
   offer_filter_applied |-> r.apply_offer_filter,
   total |-> Len(r.applications),
   shortlisted |-> r.shortlisted_count,
   rejected |-> Len(r.rejected_results),
   results |-> r.results]

\* The dictionary built by the return statement from the locals r.
ResultDict(r) ==
  [drive_id |-> r.drive_id, threshold |-> r.threshold, top_n |-> r.top_n,
   offer_filter_applied |-> r.apply_offer_filter,
   total |-> Len(r.applications),
   shortlisted |-> r.shortlisted_count,
   rejected |-> r.rejected_count,
   results |-> r.results]

\* The result dictionary is returned.
Return(p) ==
  /\ run[p].pc = "decide"
  /\ run[p].i = Len(run[p].scored_candidates)
  /\ run' = [run EXCEPT ![p].pc = "done", ![p].result = Some(ResultDict(run[p]))]
  /\ UNCHANGED <<users, drives, applications, offers, resume_metadata, outbox, gap, parser_vars, requests>>

\* ---------------------------------------------- shortlist_students (route)
\* status_code of the HTTPException raised for an error result
NotFoundStatus == 404

\* if "error" in result: raise HTTPException(status_code=404, detail=result["error"])
RespondError(p) ==
  /\ run[p].pc = "error"
  /\ run' = [run EXCEPT ![p].pc = "failed",
                        ![p].http_error = Some([status_code |-> NotFoundStatus,
                                                detail |-> ValueOf(run[p].error)])]
  /\ UNCHANGED <<users, drives, applications, offers, resume_metadata, outbox, gap, parser_vars, requests>>

\* Variant: every row with an address is mailed, whatever its status.
MailsToAll(results) ==
  {results[k].email : k \in {j \in DOMAIN results :
                                /\ "email" \in DOMAIN results[j]
                                /\ results[j].email # ""}}

\* The rows of a result list that get a shortlist e-mail.
ShortlistMails(results) ==
  {results[k].email : k \in {j \in DOMAIN results :
                                /\ results[j].status = "Shortlisted"
                                /\ "email" \in DOMAIN results[j]
                                /\ results[j].email # ""}}

\* After run_shortlisting has returned: e-mail the shortlisted students and
\* answer with the result.
SendShortlistEmails(p) ==
  /\ run[p].pc = "done"
  /\ outbox' = outbox \cup ShortlistMails(run[p].results)
  /\ run' = [run EXCEPT ![p].pc = "responded"]
  /\ UNCHANGED <<users, drives, applications, offers, resume_metadata, gap, parser_vars, requests>>

Next ==
  \/ \E p \in DOMAIN run, drive_id \in {DriveId, UnknownDriveId},
        threshold \in Thresholds, top_n \in TopNs, apply_offer_filter \in BOOLEAN :
       RunStart(p, drive_id, threshold, top_n, apply_offer_filter)
  \/ \E p \in DOMAIN run : FetchApplications(p)
  \/ \E p \in DOMAIN run : ProcessApplication(p)
  \/ \E p \in DOMAIN run : SortCandidates(p)
  \/ \E p \in DOMAIN run : DecideCandidate(p)
  \/ \E p \in DOMAIN run : Return(p)
  \/ \E p \in DOMAIN run : RespondError(p)
  \/ \E p \in DOMAIN run : SendShortlistEmails(p)

Spec == Init /\ [][Next]_vars

\* ------------------------------------------- two requests at the same time
\* Two server processes answer shortlisting requests against the same
\* database; every database call is one step.
Workers == {1, 2}

\* The students of the concurrent requests: one that is scored 0.74, one
\* that is scored 0.94 and one below the eligibility CGPA.
ConcurrentProfiles ==
  { [cgpa |-> Some(85000), resumes |-> << <<"PYTHON", "Sql">> >>,          offers |-> {}],
    [cgpa |-> Some(85000), resumes |-> << <<"Python", "SQL", "React">> >>, offers |-> {20, 40}],
    [cgpa |-> Some(60000), resumes |-> << <<"Python", "SQL", "React">> >>, offers |-> {40}] }

ConcurrentDrive ==
  [eligibility_cgpa |-> 70000, required_skills |-> <<"Python", "SQL", "React">>, package |-> 60]

\* The threshold and top_n of a request.
ConcurrentRequests ==
  { [threshold |-> 5000, top_n |-> None],
    [threshold |-> 7400, top_n |-> None],
    [threshold |-> 5000, top_n |-> Some(1)] }

InitConcurrent ==
  \E prof \in [Students -> ConcurrentProfiles] :
    /\ users = [s \in Students |-> [cgpa |-> prof[s].cgpa, email |-> EmailOf(s)]]
    /\ resume_metadata = [s \in Students |-> prof[s].resumes]
    /\ offers = [s \in Students |-> prof[s].offers]
    /\ drives = [id \in {DriveId} |-> ConcurrentDrive]
    /\ applications =
         [a \in 1..NumStudents |->
            [id |-> a, student_id |-> a, drive_id |-> DriveId,
             status |-> "Applied", ai_score |-> 0]]
    /\ run = [p \in Workers |-> IdleRun]
    /\ outbox = {}
    /\ gap = NoGap
    /\ classifier = NoClassifier
    /\ extraction = NoExtraction
    /\ skills = NoSkills
    /\ requests = NoRequests

NextConcurrent ==
  \/ \E p \in DOMAIN run, request \in ConcurrentRequests :
       RunStart(p, DriveId, request.threshold, request.top_n, FALSE)
  \/ \E p \in DOMAIN run : FetchApplications(p)
  \/ \E p \in DOMAIN run : ProcessApplication(p)
  \/ \E p \in DOMAIN run : SortCandidates(p)
  \/ \E p \in DOMAIN run : DecideCandidate(p)
  \/ \E p \in DOMAIN run : Return(p)
  \/ \E p \in DOMAIN run : SendShortlistEmails(p)

SpecConcurrent == InitConcurrent /\ [][NextConcurrent]_vars

\* --------------------------------------------------------- apply_to_drive
\* A request that has not arrived yet.
NoRequest == [pc |-> "idle"]

\* status.HTTP_400_BAD_REQUEST
BadRequestStatus == 400

AlreadyApplied == "You have already applied to this drive"

\* select("id").eq("student_id", student_id).eq("drive_id", drive_id)
ExistingApplications(student_id, drive_id) ==
  {a \in DOMAIN applications :
     /\ applications[a].student_id = student_id
     /\ applications[a].drive_id = drive_id}

\* The request arrives and the check for a duplicate application is made.
ApplyCheck(q, student_id, drive_id, resume_id) ==
  /\ requests[q].pc = "idle"
  /\ requests' = [requests EXCEPT ![q] =
       [op |-> "apply", pc |-> "checked", student_id |-> student_id,
        drive_id |-> drive_id, resume_id |-> resume_id,
        existing |-> ExistingApplications(student_id, drive_id)]]
  /\ UNCHANGED <<users, drives, applications, offers, resume_metadata, run, outbox,
                 gap, parser_vars>>

\* if existing.data: raise HTTPException(400, "You have already applied ...")
ApplyRefuse(q) ==
  /\ requests[q].pc = "checked"
  /\ requests[q].existing # {}
  /\ requests' = [requests EXCEPT ![q] =
       [op |-> "apply", pc |-> "refused", student_id |-> requests[q].student_id,
        drive_id |-> requests[q].drive_id,
        http_error |-> [status_code |-> BadRequestStatus, detail |-> AlreadyApplied]]]
  /\ UNCHANGED <<users, drives, applications, offers, resume_metadata, run, outbox,
                 gap, parser_vars>>

\* The application is inserted (resume_id is left NULL when none is given)
\* and returned.
ApplyInsert(q) ==
  /\ requests[q].pc = "checked"
  /\ requests[q].existing = {}
  /\ applications' = Append(applications,
       [id |-> Len(applications) + 1, student_id |-> requests[q].student_id,
        drive_id |-> requests[q].drive_id, status |-> "Applied", ai_score |-> 0,
        resume_id |-> requests[q].resume_id])
  /\ requests' = [requests EXCEPT ![q] =
       [op |-> "apply", pc |-> "created", student_id |-> requests[q].student_id,
        drive_id |-> requests[q].drive_id,
        application_id |-> Len(applications) + 1]]
  /\ UNCHANGED <<users, drives, offers, resume_metadata, run, outbox, gap, parser_vars>>

\* The requests to apply_to_drive: each database call is one step, and the
\* calls of different requests interleave.
MaxRequests == 2

\* The resume a request may name.
ResumeIds == {None, Some(1)}

InitApply ==
  /\ users = [s \in Students |-> [cgpa |-> Some(85000), email |-> EmailOf(s)]]
  /\ resume_metadata = [s \in Students |-> << <<"Python", "SQL">> >>]
  /\ offers = [s \in Students |-> {}]
  /\ drives = [id \in {DriveId} |-> ConcurrentDrive]
  /\ applications = <<>>
  /\ run = [p \in {1} |-> IdleRun]
  /\ outbox = {}
  /\ gap = NoGap
  /\ classifier = NoClassifier
  /\ extraction = NoExtraction
  /\ skills = NoSkills
  /\ requests = [q \in 1..MaxRequests |-> NoRequest]

NextApply ==
  \/ \E q \in DOMAIN requests, student_id \in Students, resume_id \in ResumeIds :
       ApplyCheck(q, student_id, DriveId, resume_id)
  \/ \E q \in DOMAIN requests : ApplyRefuse(q)
  \/ \E q \in DOMAIN requests : ApplyInsert(q)

SpecApply == InitApply /\ [][NextApply]_vars

\* ------------------------------------------------------------ mark_placed
ApplicationNotFound == "Application not found"

\* The address line of a selection e-mail (the shortlist e-mails of outbox
\* are the bare addresses).
SelectionMail(address) == "selection:" \o address

\* The request arrives and the application is fetched with its student:
\* select(...).eq("id", application_id).single(), then 404 when there is none.
PlaceSelect(q, application_id, package) ==
  /\ requests[q].pc = "idle"
  /\ requests' = [requests EXCEPT ![q] =
       IF application_id \in {applications[a].id : a \in DOMAIN applications}
       THEN [op |-> "place", pc |-> "selected", application_id |-> application_id,
             package |-> package,
             student_id |-> applications[CHOOSE a \in DOMAIN applications :
                                           applications[a].id = application_id].student_id]
       ELSE [op |-> "place", pc |-> "not_found", application_id |-> application_id,
             http_error |-> [status_code |-> NotFoundStatus,
                             detail |-> ApplicationNotFound]]]
  /\ UNCHANGED <<users, drives, applications, offers, resume_metadata, run, outbox,
                 gap, parser_vars>>

\* update({"status": "Placed"}).eq("id", application_id)
PlaceUpdate(q) ==
  /\ requests[q].pc = "selected"
  /\ applications' = [a \in DOMAIN applications |->
       IF applications[a].id = requests[q].application_id
       THEN [applications[a] EXCEPT !.status = "Placed"]
       ELSE applications[a]]
  /\ requests' = [requests EXCEPT ![q].pc = "updated"]
  /\ UNCHANGED <<users, drives, offers, resume_metadata, run, outbox, gap, parser_vars>>

\* table("offers").insert({... "package": body.package ...})
PlaceInsertOffer(q) ==
  /\ requests[q].pc = "updated"
  /\ offers' = [offers EXCEPT ![requests[q].student_id] = @ \cup {requests[q].package}]
  /\ requests' = [requests EXCEPT ![q].pc = "offered"]
  /\ UNCHANGED <<users, drives, applications, resume_metadata, run, outbox,
                 gap, parser_vars>>

\* The selection e-mail is sent to the student's address and the request
\* is answered.
PlaceRespond(q) ==
  /\ requests[q].pc = "offered"
  /\ outbox' = IF users[requests[q].student_id].email # ""
               THEN outbox \cup {SelectionMail(users[requests[q].student_id].email)}
               ELSE outbox
  /\ requests' = [requests EXCEPT ![q].pc = "placed"]
  /\ UNCHANGED <<users, drives, applications, offers, resume_metadata, run,
                 gap, parser_vars>>

\* ------------------------------------------------ one request after another
\* One server process: a route runs from its first database call to its
\* response before the next request is taken up.
SecondDriveId == 2

\* body.package of a mark_placed request, in tenths of LPA
PlacePackages == {60}

\* The students: one that is scored 0.94 for the first drive, one that is
\* scored 0.74, and one below its eligibility CGPA who holds an offer.
SequenceProfiles ==
  << [cgpa |-> Some(85000), resumes |-> << <<"Python", "SQL", "React">> >>, offers |-> {}],
     [cgpa |-> Some(85000), resumes |-> << <<"PYTHON", "Sql">> >>,          offers |-> {}],
     [cgpa |-> Some(60000), resumes |-> << >>,                              offers |-> {40}] >>

ProfileOf(s) == SequenceProfiles[((s - 1) % Len(SequenceProfiles)) + 1]

\* No shortlisting run and no request is between its first step and its
\* response.
Quiet ==
  /\ \A p \in DOMAIN run : run[p].pc \in {"idle", "responded", "failed", "raised"}
  /\ \A q \in DOMAIN requests :
       requests[q].pc \in {"idle", "refused", "created", "not_found", "placed"}

\* A later shortlisting request, with any arguments, at a worker that has
\* answered its previous one.
RunLater(p, drive_id, threshold, top_n, apply_offer_filter) ==
  /\ run[p].pc \in {"responded", "failed", "raised"}
  /\ run[p].invocation < MaxInvocations
  /\ EnterRun(p, drive_id, threshold, top_n, apply_offer_filter)

\* The request that arrives next takes the first free number.
NextRequestId(q) ==
  /\ requests[q].pc = "idle"
  /\ \A k \in DOMAIN requests : k < q => requests[k].pc # "idle"

\* The state after sign-ups, drive creation and resume uploads, with the two
\* earlier applications of the last student: both Applied, or both Offered
\* (create_offer sets every application of the student), or the first one
\* Placed after that (mark_placed).
InitSequence ==
  \E st \in {<<"Applied", "Applied">>, <<"Offered", "Offered">>, <<"Placed", "Offered">>} :
    /\ users = [s \in Students |-> [cgpa |-> ProfileOf(s).cgpa, email |-> EmailOf(s)]]
    /\ resume_metadata = [s \in Students |-> ProfileOf(s).resumes]
    /\ offers = [s \in Students |-> ProfileOf(s).offers]
    /\ drives = [id \in {DriveId, SecondDriveId} |->
                   IF id = DriveId THEN ConcurrentDrive
                   ELSE [eligibility_cgpa |-> 0, required_skills |-> <<>>, package |-> 0]]
    /\ applications =
         << [id |-> 1, student_id |-> NumStudents, drive_id |-> DriveId,
             status |-> st[1], ai_score |-> 0, resume_id |-> None],
            [id |-> 2, student_id |-> NumStudents, drive_id |-> SecondDriveId,
             status |-> st[2], ai_score |-> 0, resume_id |-> None] >>
    /\ run = [p \in {1} |-> IdleRun]
    /\ outbox = {}
    /\ gap = NoGap
    /\ classifier = NoClassifier
    /\ extraction = NoExtraction
    /\ skills = NoSkills
    /\ requests = [q \in 1..MaxRequests |-> NoRequest]

NextSequence ==
  \/ /\ Quiet
     /\ \E q \in DOMAIN requests, student_id \in Students,
           drive_id \in {DriveId, SecondDriveId} :
          NextRequestId(q) /\ ApplyCheck(q, student_id, drive_id, None)
  \/ \E q \in DOMAIN requests : ApplyRefuse(q)
  \/ \E q \in DOMAIN requests : ApplyInsert(q)
  \/ /\ Quiet
     /\ \E q \in DOMAIN requests, application_id \in 1..(Len(applications) + 1),
           package \in PlacePackages :
          NextRequestId(q) /\ PlaceSelect(q, application_id, package)
  \/ \E q \in DOMAIN requests : PlaceUpdate(q)
  \/ \E q \in DOMAIN requests : PlaceInsertOffer(q)
  \/ \E q \in DOMAIN requests : PlaceRespond(q)
  \/ /\ Quiet
     /\ \E p \in DOMAIN run, drive_id \in {DriveId, SecondDriveId},
           request \in ConcurrentRequests :
          \/ RunStart(p, drive_id, request.threshold, request.top_n, FALSE)
          \/ RunLater(p, drive_id, request.threshold, request.top_n, FALSE)
  \/ \E p \in DOMAIN run : FetchApplications(p)
  \/ \E p \in DOMAIN run : ProcessApplication(p)
  \/ \E p \in DOMAIN run : SortCandidates(p)
  \/ \E p \in DOMAIN run : DecideCandidate(p)
  \/ \E p \in DOMAIN run : Return(p)
  \/ \E p \in DOMAIN run : SendShortlistEmails(p)

SpecSequence == InitSequence /\ [][NextSequence]_vars

\* ------------------------------------------ applications that name a resume
\* The resume rows a student has uploaded (upload_and_parse_resume inserts a
\* row per upload).
UploadedResumes ==
  { << <<"PYTHON", "Sql">> >>,
    << <<"PYTHON", "Sql">>, <<"Python", "SQL", "React">> >> }

\* What an application may name: no resume, or one of the student's own
\* (the k-th row the student uploaded).
OwnResumeIds(resumes) == {None} \cup {Some(k) : k \in DOMAIN resumes}

\* The state after sign-ups, uploads and applications: every student has
\* applied to the drive once, as apply_to_drive stores it.
InitResumes ==
  \E resumes \in [Students -> UploadedResumes] :
    \E resume_id \in [Students -> {None, Some(1), Some(2)}] :
      /\ \A s \in Students : resume_id[s] \in OwnResumeIds(resumes[s])
      /\ users = [s \in Students |-> [cgpa |-> Some(85000), email |-> EmailOf(s)]]
      /\ resume_metadata = resumes
      /\ offers = [s \in Students |-> {}]
      /\ drives = [id \in {DriveId} |-> ConcurrentDrive]
      /\ applications =
           [a \in 1..NumStudents |->
              [id |-> a, student_id |-> a, drive_id |-> DriveId,
               status |-> "Applied", ai_score |-> 0, resume_id |-> resume_id[a]]]
      /\ run = [p \in {1} |-> IdleRun]
      /\ outbox = {}
      /\ gap = NoGap
      /\ classifier = NoClassifier
      /\ extraction = NoExtraction
      /\ skills = NoSkills
      /\ requests = NoRequests

NextResumes ==
  \/ \E p \in DOMAIN run, request \in ConcurrentRequests :
       RunStart(p, DriveId, request.threshold, request.top_n, FALSE)
  \/ \E p \in DOMAIN run : FetchApplications(p)
  \/ \E p \in DOMAIN run : ProcessApplication(p)
  \/ \E p \in DOMAIN run : SortCandidates(p)
  \/ \E p \in DOMAIN run : DecideCandidate(p)
  \/ \E p \in DOMAIN run : Return(p)
  \/ \E p \in DOMAIN run : SendShortlistEmails(p)

SpecResumes == InitResumes /\ [][NextResumes]_vars

\* ------------------------------------------------------ analyze_skill_gap
\* Variant: the required skill is looked up as written.
GapMatchesAsWritten(skill, extracted_lower) ==
  \E j \in DOMAIN extracted_lower : extracted_lower[j] = skill

\* s.lower() in extracted_lower
GapMatches(skill, extracted_lower) ==
  \E j \in DOMAIN extracted_lower : extracted_lower[j] = Lower(skill)

\* Variant: the percentage is cut to a whole number.
MatchPercentageWhole(matched, required_skills) ==
  IF required_skills # <<>>
  THEN ((Len(matched) * 100) \div Len(required_skills)) * 100
  ELSE 10000

\* round((len(matched) / len(required_skills) * 100) if required_skills else 100.0, 2),
\* in hundredths of a percent
MatchPercentage(matched, required_skills) ==
  IF required_skills # <<>>
  THEN RoundDiv(Len(matched) * 100 * 100, Len(required_skills))
  ELSE 10000

\* The whole of analyze_skill_gap for one request (the read-only lookup of
\* training resources for the missing skills is not represented).
AnalyzeSkillGap(student_id, drive_id) ==
  /\ gap.pc = "idle"
  /\ IF IsNone(DriveLookup(drive_id))
     THEN gap' = [pc |-> "error", student_id |-> student_id, drive_id |-> drive_id,
                  error |-> DriveNotFound]
     ELSE LET required_skills == ValueOf(DriveLookup(drive_id)).required_skills
              extracted_lower == LowerAll(ExtractedSkills(student_id))
              matched == SelectSeq(required_skills,
                                   LAMBDA sk : GapMatches(sk, extracted_lower))
              missing == SelectSeq(required_skills,
                                   LAMBDA sk : ~GapMatches(sk, extracted_lower))
          IN gap' = [pc |-> "done", student_id |-> student_id, drive_id |-> drive_id,
                     matched_skills |-> matched,
                     missing_skills |-> missing,
                     match_percentage |-> MatchPercentage(matched, required_skills)]
  /\ UNCHANGED <<shortlisting_vars, parser_vars>>

NextGap ==
  \E student_id \in Students, drive_id \in {DriveId, UnknownDriveId} :
    AnalyzeSkillGap(student_id, drive_id)

SpecGap == Init /\ [][NextGap]_vars

\* ---------------------------------------------------------- resume_parser
\* A line of text is a sequence of characters.  A character is a string of
\* length one, or the name of its code point ("U+2022") when it is not ASCII.

\* The characters str.strip() and the regex class \s remove.
Whitespace == {" ", "\t", "\r"}

LowerLetters ==
  {"a", "b", "c", "d", "e", "f", "g", "h", "i", "j", "k", "l", "m", "n", "o", "p", "q", "r",
   "s", "t", "u", "v", "w", "x", "y", "z"}

UpperLetterSeq ==
  <<"A", "B", "C", "D", "E", "F", "G", "H", "I", "J", "K", "L", "M", "N", "O", "P", "Q", "R",
    "S", "T", "U", "V", "W", "X", "Y", "Z">>

LowerLetterSeq ==
  <<"a", "b", "c", "d", "e", "f", "g", "h", "i", "j", "k", "l", "m", "n", "o", "p", "q", "r",
    "s", "t", "u", "v", "w", "x", "y", "z">>

\* str.lower() on one character
CharLower(c) ==
  IF \E i \in DOMAIN UpperLetterSeq : UpperLetterSeq[i] = c
  THEN LowerLetterSeq[CHOOSE i \in DOMAIN UpperLetterSeq : UpperLetterSeq[i] = c]
  ELSE c

\* re.IGNORECASE: the line is compared in lowercase
LowerChars(s) == [i \in DOMAIN s |-> CharLower(s[i])]

RECURSIVE LStrip(_)
LStrip(s) == IF s # <<>> /\ Head(s) \in Whitespace THEN LStrip(Tail(s)) ELSE s

RECURSIVE RStrip(_)
RStrip(s) ==
  IF s # <<>> /\ s[Len(s)] \in Whitespace THEN RStrip(SubSeq(s, 1, Len(s) - 1)) ELSE s

\* line.strip()
Strip(s) == RStrip(LStrip(s))

\* str.startswith(prefix), and re.match of a literal at the start of the line
StartsWith(s, prefix) ==
  /\ Len(prefix) <= Len(s)
  /\ SubSeq(s, 1, Len(prefix)) = prefix

\* [•\-\*◦▪○●→▸►✓✔☑]
BulletChars ==
  {"U+2022", "-", "*", "U+25E6", "U+25AA", "U+25CB", "U+25CF", "U+2192", "U+25B8", "U+25BA",
   "U+2713", "U+2714", "U+2611"}

\* [|–—:]
SeparatorChars == {"|", "U+2013", "U+2014", ":"}

\* The tuple action_verbs of _is_description_line.
action_verbs ==
  <<
    \* "Developed"
    <<"D", "e", "v", "e", "l", "o", "p", "e", "d">>,
    \* "Built"
    <<"B", "u", "i", "l", "t">>,
    \* "Created"
    <<"C", "r", "e", "a", "t", "e", "d">>,
    \* "Implemented"
    <<"I", "m", "p", "l", "e", "m", "e", "n", "t", "e", "d">>,
    \* "Designed"
    <<"D", "e", "s", "i", "g", "n", "e", "d">>,
    \* "Integrated"
    <<"I", "n", "t", "e", "g", "r", "a", "t", "e", "d">>,
    \* "Used"
    <<"U", "s", "e", "d">>,
    \* "Utilized"
    <<"U", "t", "i", "l", "i", "z", "e", "d">>,
    \* "Deployed"
    <<"D", "e", "p", "l", "o", "y", "e", "d">>,
    \* "Configured"
    <<"C", "o", "n", "f", "i", "g", "u", "r", "e", "d">>,
    \* "Managed"
    <<"M", "a", "n", "a", "g", "e", "d">>,
    \* "Led"
    <<"L", "e", "d">>,
    \* "Worked"
    <<"W", "o", "r", "k", "e", "d">>,
    \* "Collaborated"
    <<"C", "o", "l", "l", "a", "b", "o", "r", "a", "t", "e", "d">>,
    \* "Improved"
    <<"I", "m", "p", "r", "o", "v", "e", "d">>,
    \* "Optimized"
    <<"O", "p", "t", "i", "m", "i", "z", "e", "d">>,
    \* "Reduced"
    <<"R", "e", "d", "u", "c", "e", "d">>,
    \* "Increased"
    <<"I", "n", "c", "r", "e", "a", "s", "e", "d">>,
    \* "Achieved"
    <<"A", "c", "h", "i", "e", "v", "e", "d">>,
    \* "Established"
    <<"E", "s", "t", "a", "b", "l", "i", "s", "h", "e", "d">>,
    \* "Wrote"
    <<"W", "r", "o", "t", "e">>,
    \* "Tested"
    <<"T", "e", "s", "t", "e", "d">>,
    \* "Debugged"
    <<"D", "e", "b", "u", "g", "g", "e", "d">>,
    \* "Resolved"
    <<"R", "e", "s", "o", "l", "v", "e", "d">>,
    \* "Fixed"
    <<"F", "i", "x", "e", "d">>,
    \* "Added"
    <<"A", "d", "d", "e", "d">>,
    \* "Updated"
    <<"U", "p", "d", "a", "t", "e", "d">>,
    \* "Maintained"
    <<"M", "a", "i", "n", "t", "a", "i", "n", "e", "d">>,
    \* "Migrated"
    <<"M", "i", "g", "r", "a", "t", "e", "d">>,
    \* "Refactored"
    <<"R", "e", "f", "a", "c", "t", "o", "r", "e", "d">>,
    \* "Automated"
    <<"A", "u", "t", "o", "m", "a", "t", "e", "d">>,
    \* "Analyzed"
    <<"A", "n", "a", "l", "y", "z", "e", "d">>,
    \* "Researched"
    <<"R", "e", "s", "e", "a", "r", "c", "h", "e", "d">>,
    \* "Conducted"
    <<"C", "o", "n", "d", "u", "c", "t", "e", "d">>,
    \* "Performed"
    <<"P", "e", "r", "f", "o", "r", "m", "e", "d">>,
    \* "Ensured"
    <<"E", "n", "s", "u", "r", "e", "d">>,
    \* "Enhanced"
    <<"E", "n", "h", "a", "n", "c", "e", "d">>,
    \* "Enabled"
    <<"E", "n", "a", "b", "l", "e", "d">>,
    \* "Generated"
    <<"G", "e", "n", "e", "r", "a", "t", "e", "d">>,
    \* "Processed"
    <<"P", "r", "o", "c", "e", "s", "s", "e", "d">>,
    \* "Transformed"
    <<"T", "r", "a", "n", "s", "f", "o", "r", "m", "e", "d">>,
    \* "Applied"
    <<"A", "p", "p", "l", "i", "e", "d">>,
    \* "Leveraged"
    <<"L", "e", "v", "e", "r", "a", "g", "e", "d">>,
    \* "Incorporated"
    <<"I", "n", "c", "o", "r", "p", "o", "r", "a", "t", "e", "d">>,
    \* "Responsible"
    <<"R", "e", "s", "p", "o", "n", "s", "i", "b", "l", "e">>,
    \* "Assisted"
    <<"A", "s", "s", "i", "s", "t", "e", "d">>,
    \* "Supported"
    <<"S", "u", "p", "p", "o", "r", "t", "e", "d">>,
    \* "Contributed"
    <<"C", "o", "n", "t", "r", "i", "b", "u", "t", "e", "d">>,
    \* "Constructed"
    <<"C", "o", "n", "s", "t", "r", "u", "c", "t", "e", "d">>,
    \* "Programmed"
    <<"P", "r", "o", "g", "r", "a", "m", "m", "e", "d">>,
    \* "Engineered"
    <<"E", "n", "g", "i", "n", "e", "e", "r", "e", "d">>,
    \* "Architected"
    <<"A", "r", "c", "h", "i", "t", "e", "c", "t", "e", "d">>,
    \* "Streamlined"
    <<"S", "t", "r", "e", "a", "m", "l", "i", "n", "e", "d">>,
    \* "Spearheaded"
    <<"S", "p", "e", "a", "r", "h", "e", "a", "d", "e", "d">>,
    \* "Initiated"
    <<"I", "n", "i", "t", "i", "a", "t", "e", "d">>,
    \* "Orchestrated"
    <<"O", "r", "c", "h", "e", "s", "t", "r", "a", "t", "e", "d">>,
    \* "Secured"
    <<"S", "e", "c", "u", "r", "e", "d">>,
    \* "Handled"
    <<"H", "a", "n", "d", "l", "e", "d">>,
    \* "Executed"
    <<"E", "x", "e", "c", "u", "t", "e", "d">>,
    \* "Delivered"
    <<"D", "e", "l", "i", "v", "e", "r", "e", "d">>,
    \* "Published"
    <<"P", "u", "b", "l", "i", "s", "h", "e", "d">>,
    \* "Presented"
    <<"P", "r", "e", "s", "e", "n", "t", "e", "d">>,
    \* "Trained"
    <<"T", "r", "a", "i", "n", "e", "d">>,
    \* "Mentored"
    <<"M", "e", "n", "t", "o", "r", "e", "d">>,
    \* "Supervised"
    <<"S", "u", "p", "e", "r", "v", "i", "s", "e", "d">>,
    \* "The"
    <<"T", "h", "e">>,
    \* "This"
    <<"T", "h", "i", "s">>,
    \* "It "
    <<"I", "t", " ">>,
    \* "A "
    <<"A", " ">>,
    \* "An "
    <<"A", "n", " ">>
  >>

\* len(stripped) > 80
TitleMaxLen == 80

\* for verb in action_verbs: if stripped.startswith(verb)
StartsWithActionVerb(stripped) ==
  \E v \in DOMAIN action_verbs : StartsWith(stripped, action_verbs[v])

\* re.search(r'[|–—:]', stripped)
HasSeparator(stripped) == \E i \in DOMAIN stripped : stripped[i] \in SeparatorChars

\* _is_description_line(line): TRUE for a description, FALSE for a title
IsDescriptionLine(line) ==
  LET stripped == Strip(line) IN
  IF stripped = <<>> THEN TRUE
  ELSE IF stripped[1] \in BulletChars THEN TRUE
  ELSE IF stripped[1] \in LowerLetters THEN TRUE
  ELSE IF StartsWithActionVerb(stripped) THEN TRUE
  ELSE IF Len(stripped) > TitleMaxLen /\ ~HasSeparator(stripped) THEN TRUE
  ELSE FALSE

\* The alternatives of section_header_re that are plain words.
section_headers ==
  <<
    \* "education"
    <<"e", "d", "u", "c", "a", "t", "i", "o", "n">>,
    \* "experience"
    <<"e", "x", "p", "e", "r", "i", "e", "n", "c", "e">>,
    \* "work experience"
    <<"w", "o", "r", "k", " ", "e", "x", "p", "e", "r", "i", "e", "n", "c", "e">>,
    \* "skills"
    <<"s", "k", "i", "l", "l", "s">>,
    \* "technical skills"
    <<"t", "e", "c", "h", "n", "i", "c", "a", "l", " ", "s", "k", "i", "l", "l", "s">>,
    \* "certifications"
    <<"c", "e", "r", "t", "i", "f", "i", "c", "a", "t", "i", "o", "n", "s">>,
    \* "achievements"
    <<"a", "c", "h", "i", "e", "v", "e", "m", "e", "n", "t", "s">>,
    \* "awards"
    <<"a", "w", "a", "r", "d", "s">>,
    \* "hobbies"
    <<"h", "o", "b", "b", "i", "e", "s">>,
    \* "interests"
    <<"i", "n", "t", "e", "r", "e", "s", "t", "s">>,
    \* "references"
    <<"r", "e", "f", "e", "r", "e", "n", "c", "e", "s">>,
    \* "publications"
    <<"p", "u", "b", "l", "i", "c", "a", "t", "i", "o", "n", "s">>,
    \* "summary"
    <<"s", "u", "m", "m", "a", "r", "y">>,
    \* "objective"
    <<"o", "b", "j", "e", "c", "t", "i", "v", "e">>,
    \* "contact"
    <<"c", "o", "n", "t", "a", "c", "t">>
  >>

\* extra.?curricular and co.?curricular: the two parts, with at most one
\* character of any kind between them.
CurricularPrefixes == <<<<"e", "x", "t", "r", "a">>, <<"c", "o">>>>
Curricular == <<"c", "u", "r", "r", "i", "c", "u", "l", "a", "r">>

\* activities, the last alternative of section_header_re
Activities == <<"a", "c", "t", "i", "v", "i", "t", "i", "e", "s">>

\* section_header_re.match(stripped)
MatchesSectionHeader(stripped) ==
  LET low == LowerChars(stripped) IN
  \/ \E h \in DOMAIN section_headers : StartsWith(low, section_headers[h])
  \/ \E q \in DOMAIN CurricularPrefixes :
       LET pre == CurricularPrefixes[q] IN
       /\ StartsWith(low, pre)
       /\ \/ StartsWith(SubSeq(low, Len(pre) + 1, Len(low)), Curricular)
          \/ StartsWith(SubSeq(low, Len(pre) + 2, Len(low)), Curricular)
  \/ StartsWith(low, Activities)

\* The alternatives of project_section_re.
project_sections ==
  <<
    \* "projects"
    <<"p", "r", "o", "j", "e", "c", "t", "s">>,
    \* "academic projects"
    <<"a", "c", "a", "d", "e", "m", "i", "c", " ", "p", "r", "o", "j", "e", "c", "t", "s">>,
    \* "personal projects"
    <<"p", "e", "r", "s", "o", "n", "a", "l", " ", "p", "r", "o", "j", "e", "c", "t", "s">>,
    \* "major projects"
    <<"m", "a", "j", "o", "r", " ", "p", "r", "o", "j", "e", "c", "t", "s">>,
    \* "mini projects"
    <<"m", "i", "n", "i", " ", "p", "r", "o", "j", "e", "c", "t", "s">>,
    \* "key projects"
    <<"k", "e", "y", " ", "p", "r", "o", "j", "e", "c", "t", "s">>,
    \* "selected projects"
    <<"s", "e", "l", "e", "c", "t", "e", "d", " ", "p", "r", "o", "j", "e", "c", "t", "s">>
  >>

\* project_section_re.match(stripped)
MatchesProjectSection(stripped) ==
  LET low == LowerChars(stripped) IN
  \E h \in DOMAIN project_sections : StartsWith(low, project_sections[h])

\* bullet_clean_re.sub('', stripped).strip()
BulletClean(stripped) ==
  IF stripped # <<>> /\ stripped[1] \in BulletChars
  THEN Strip(Tail(stripped))
  ELSE Strip(stripped)

\* stripped[:150]
NameMaxLen == 150

Truncate(s) == IF Len(s) > NameMaxLen THEN SubSeq(s, 1, NameMaxLen) ELSE s

\* " • "
DescSeparator == <<" ", "U+2022", " ">>

\* ------------------------------------------------ calls of the classifier
\* The parser reads no table: its calls are made on an empty database.
EmptyTables ==
  /\ users = <<>>
  /\ drives = <<>>
  /\ applications = <<>>
  /\ offers = <<>>
  /\ resume_metadata = <<>>
  /\ run = [p \in {1} |-> IdleRun]
  /\ outbox = {}
  /\ gap = NoGap
  /\ requests = NoRequests

\* The lines given to the classifier: leading and trailing whitespace, a
\* first word, the rest of the line, and filling up to a length around the
\* limit of 80 characters.
Indents == {<<>>, <<" ", " ">>, <<"\t">>}

FirstWords == {
    \* ""
    <<>>,
    \* "Developed"
    <<"D", "e", "v", "e", "l", "o", "p", "e", "d">>,
    \* "Built"
    <<"B", "u", "i", "l", "t">>,
    \* "The"
    <<"T", "h", "e">>,
    \* "Thesis"
    <<"T", "h", "e", "s", "i", "s">>,
    \* "It"
    <<"I", "t">>,
    \* "Item"
    <<"I", "t", "e", "m">>,
    \* "A"
    <<"A">>,
    \* "An"
    <<"A", "n">>,
    \* "Led"
    <<"L", "e", "d">>,
    \* "Ledger"
    <<"L", "e", "d", "g", "e", "r">>,
    \* "Library"
    <<"L", "i", "b", "r", "a", "r", "y">>,
    \* "alpha"
    <<"a", "l", "p", "h", "a">>,
    \* "Alpha"
    <<"A", "l", "p", "h", "a">>,
    \* "3D"
    <<"3", "D">>,
    \* "•"
    <<"U+2022">>,
    \* "-"
    <<"-">>,
    \* "→"
    <<"U+2192">>
  }

Rests == {
    \* ""
    <<>>,
    \* " Management System"
    <<" ", "M", "a", "n", "a", "g", "e", "m", "e", "n", "t", " ", "S", "y", "s", "t", "e", "m">>,
    \* " Portal: React"
    <<" ", "P", "o", "r", "t", "a", "l", ":", " ", "R", "e", "a", "c", "t">>,
    \* " Tool – v2"
    <<" ", "T", "o", "o", "l", " ", "U+2013", " ", "v", "2">>
  }

FilledLengths == {0, TitleMaxLen, TitleMaxLen + 1}

FillTo(s, n) == s \o [i \in 1..(n - Len(s)) |-> IF i = 1 THEN " " ELSE "x"]

ClassifierLines ==
  {ind \o FillTo(f \o r, n) \o ind :
     ind \in Indents, f \in FirstWords, r \in Rests, n \in FilledLengths}

InitClassify ==
  /\ EmptyTables
  /\ extraction = NoExtraction
  /\ skills = NoSkills
  /\ \E line \in ClassifierLines : classifier = [pc |-> "called", line |-> line]

\* One call of _is_description_line.
ClassifyLine ==
  /\ classifier.pc = "called"
  /\ classifier' = [pc |-> "done", line |-> classifier.line,
                    description |-> IsDescriptionLine(classifier.line)]
  /\ UNCHANGED <<shortlisting_vars, gap, extraction, skills>>

NextClassify == ClassifyLine

SpecClassify == InitClassify /\ [][NextClassify]_vars

\* ------------------------------------------------------- extract_projects
MaxLines == 4

\* A title longer than 150 characters, with a separator.
LongTitle == <<"B", "e", "t", "a", ":", " ">> \o [i \in 1..NameMaxLen |-> "x"]

\* The lines the texts are made of.
ProjectLines == {
    \* "Projects"
    <<"P", "r", "o", "j", "e", "c", "t", "s">>,
    \* "  EDUCATION"
    <<" ", " ", "E", "D", "U", "C", "A", "T", "I", "O", "N">>,
    \* "Library Management System"
    <<"L", "i", "b", "r", "a", "r", "y", " ", "M", "a", "n", "a", "g", "e", "m", "e", "n", "t", " ", "S", "y", "s", "t", "e", "m">>,
    \* "• Built using Java and MySQL"
    <<"U+2022", " ", "B", "u", "i", "l", "t", " ", "u", "s", "i", "n", "g", " ", "J", "a", "v", "a", " ", "a", "n", "d", " ", "M", "y", "S", "Q", "L">>,
    \* ""
    <<>>,
    \* "Thesis Portal"
    <<"T", "h", "e", "s", "i", "s", " ", "P", "o", "r", "t", "a", "l">>
  } \cup {LongTitle}

\* text.split("\n"): the texts, as their lines
Texts == UNION {[1..n -> ProjectLines] : n \in 1..MaxLines}

\* Variant: the scan begins inside a projects section.
StartExtractionInside(lines) ==
  [pc |-> "scan", lines |-> lines, k |-> 1, in_projects_section |-> TRUE,
   current_project |-> None, projects |-> <<>>]

\* projects = [], in_projects_section = False, current_project = None
StartExtraction(lines) ==
  [pc |-> "scan", lines |-> lines, k |-> 1, in_projects_section |-> FALSE,
   current_project |-> None, projects |-> <<>>]

InitProjects ==
  /\ EmptyTables
  /\ classifier = NoClassifier
  /\ skills = NoSkills
  /\ \E lines \in Texts : extraction = StartExtraction(lines)

\* The branch of the loop body taken for a line, in the order of the tests.
LineBranch(line, in_projects_section) ==
  LET stripped == Strip(line) IN
  IF stripped = <<>> THEN "blank"
  ELSE IF MatchesProjectSection(stripped) THEN "open"
  ELSE IF ~in_projects_section THEN "outside"
  ELSE IF MatchesSectionHeader(stripped) THEN "close"
  ELSE IF IsDescriptionLine(line) THEN "description"
  ELSE "title"

\* for line in lines: the loop is at a line and takes the given branch
AtLine(branch) ==
  /\ extraction.pc = "scan"
  /\ extraction.k <= Len(extraction.lines)
  /\ LineBranch(extraction.lines[extraction.k], extraction.in_projects_section) = branch

\* if not stripped: continue
SkipBlank ==
  /\ AtLine("blank")
  /\ extraction' = [extraction EXCEPT !.k = @ + 1]
  /\ UNCHANGED <<shortlisting_vars, gap, classifier, skills>>

\* if project_section_re.match(stripped): in_projects_section = True; continue
OpenSection ==
  /\ AtLine("open")
  /\ extraction' = [extraction EXCEPT !.k = @ + 1, !.in_projects_section = TRUE]
  /\ UNCHANGED <<shortlisting_vars, gap, classifier, skills>>

\* if not in_projects_section: continue
SkipOutside ==
  /\ AtLine("outside")
  /\ extraction' = [extraction EXCEPT !.k = @ + 1]
  /\ UNCHANGED <<shortlisting_vars, gap, classifier, skills>>

\* Variant: the section is closed and the scan goes on.
CloseSectionAndContinue ==
  /\ AtLine("close")
  /\ extraction' = [extraction EXCEPT !.k = @ + 1, !.in_projects_section = FALSE]
  /\ UNCHANGED <<shortlisting_vars, gap, classifier, skills>>

\* if section_header_re.match(stripped): break
CloseSection ==
  /\ AtLine("close")
  /\ extraction' = [extraction EXCEPT !.k = Len(extraction.lines) + 1]
  /\ UNCHANGED <<shortlisting_vars, gap, classifier, skills>>

\* A description line: its text, without the bullet, is attached to the
\* current project.
DescriptionLine ==
  /\ AtLine("description")
  /\ LET clean == BulletClean(Strip(extraction.lines[extraction.k]))
         current_project == extraction.current_project
     IN IF ~IsNone(current_project) /\ clean # <<>>
        THEN extraction' = [extraction EXCEPT
               !.k = @ + 1,
               !.current_project =
                  Some([ValueOf(current_project) EXCEPT
                          !.desc = IF @ # <<>> THEN @ \o DescSeparator \o clean
                                   ELSE clean])]
        ELSE extraction' = [extraction EXCEPT !.k = @ + 1]
  /\ UNCHANGED <<shortlisting_vars, gap, classifier, skills>>

\* A title line: the current project is appended and a new one is begun.
TitleLine ==
  /\ AtLine("title")
  /\ extraction' = [extraction EXCEPT
       !.k = @ + 1,
       !.projects = IF IsNone(extraction.current_project) THEN @
                    ELSE Append(@, ValueOf(extraction.current_project)),
       !.current_project =
          Some([name |-> Truncate(Strip(extraction.lines[extraction.k])),
                desc |-> <<>>])]
  /\ UNCHANGED <<shortlisting_vars, gap, classifier, skills>>

\* After the loop: the last project is appended and the list is returned.
ReturnProjects ==
  /\ extraction.pc = "scan"
  /\ extraction.k > Len(extraction.lines)
  /\ extraction' = [extraction EXCEPT
       !.pc = "done",
       !.projects = IF IsNone(extraction.current_project) THEN @
                    ELSE Append(@, ValueOf(extraction.current_project))]
  /\ UNCHANGED <<shortlisting_vars, gap, classifier, skills>>

NextProjects ==
  \/ SkipBlank
  \/ OpenSection
  \/ SkipOutside
  \/ CloseSection
  \/ DescriptionLine
  \/ TitleLine
  \/ ReturnProjects

SpecProjects == InitProjects /\ [][NextProjects]_vars

\* --------------------------------------------------------- extract_skills
\* SKILL_LIST
SKILL_LIST ==
  <<
    \* "python"
    <<"p", "y", "t", "h", "o", "n">>,
    \* "java"
    <<"j", "a", "v", "a">>,
    \* "javascript"
    <<"j", "a", "v", "a", "s", "c", "r", "i", "p", "t">>,
    \* "typescript"
    <<"t", "y", "p", "e", "s", "c", "r", "i", "p", "t">>,
    \* "c++"
    <<"c", "+", "+">>,
    \* "c#"
    <<"c", "#">>,
    \* "c"
    <<"c">>,
    \* "react"
    <<"r", "e", "a", "c", "t">>,
    \* "angular"
    <<"a", "n", "g", "u", "l", "a", "r">>,
    \* "vue"
    <<"v", "u", "e">>,
    \* "node.js"
    <<"n", "o", "d", "e", ".", "j", "s">>,
    \* "express"
    <<"e", "x", "p", "r", "e", "s", "s">>,
    \* "fastapi"
    <<"f", "a", "s", "t", "a", "p", "i">>,
    \* "django"
    <<"d", "j", "a", "n", "g", "o">>,
    \* "flask"
    <<"f", "l", "a", "s", "k">>,
    \* "spring boot"
    <<"s", "p", "r", "i", "n", "g", " ", "b", "o", "o", "t">>,
    \* "html"
    <<"h", "t", "m", "l">>,
    \* "css"
    <<"c", "s", "s">>,
    \* "tailwind"
    <<"t", "a", "i", "l", "w", "i", "n", "d">>,
    \* "sql"
    <<"s", "q", "l">>,
    \* "postgresql"
    <<"p", "o", "s", "t", "g", "r", "e", "s", "q", "l">>,
    \* "mysql"
    <<"m", "y", "s", "q", "l">>,
    \* "mongodb"
    <<"m", "o", "n", "g", "o", "d", "b">>,
    \* "redis"
    <<"r", "e", "d", "i", "s">>,
    \* "firebase"
    <<"f", "i", "r", "e", "b", "a", "s", "e">>,
    \* "supabase"
    <<"s", "u", "p", "a", "b", "a", "s", "e">>,
    \* "aws"
    <<"a", "w", "s">>,
    \* "azure"
    <<"a", "z", "u", "r", "e">>,
    \* "gcp"
    <<"g", "c", "p">>,
    \* "docker"
    <<"d", "o", "c", "k", "e", "r">>,
    \* "kubernetes"
    <<"k", "u", "b", "e", "r", "n", "e", "t", "e", "s">>,
    \* "git"
    <<"g", "i", "t">>,
    \* "github"
    <<"g", "i", "t", "h", "u", "b">>,
    \* "linux"
    <<"l", "i", "n", "u", "x">>,
    \* "rest api"
    <<"r", "e", "s", "t", " ", "a", "p", "i">>,
    \* "graphql"
    <<"g", "r", "a", "p", "h", "q", "l">>,
    \* "machine learning"
    <<"m", "a", "c", "h", "i", "n", "e", " ", "l", "e", "a", "r", "n", "i", "n", "g">>,
    \* "deep learning"
    <<"d", "e", "e", "p", " ", "l", "e", "a", "r", "n", "i", "n", "g">>,
    \* "nlp"
    <<"n", "l", "p">>,
    \* "computer vision"
    <<"c", "o", "m", "p", "u", "t", "e", "r", " ", "v", "i", "s", "i", "o", "n">>,
    \* "tensorflow"
    <<"t", "e", "n", "s", "o", "r", "f", "l", "o", "w">>,
    \* "pytorch"
    <<"p", "y", "t", "o", "r", "c", "h">>,
    \* "scikit-learn"
    <<"s", "c", "i", "k", "i", "t", "-", "l", "e", "a", "r", "n">>,
    \* "pandas"
    <<"p", "a", "n", "d", "a", "s">>,
    \* "numpy"
    <<"n", "u", "m", "p", "y">>,
    \* "data analysis"
    <<"d", "a", "t", "a", " ", "a", "n", "a", "l", "y", "s", "i", "s">>,
    \* "data science"
    <<"d", "a", "t", "a", " ", "s", "c", "i", "e", "n", "c", "e">>,
    \* "power bi"
    <<"p", "o", "w", "e", "r", " ", "b", "i">>,
    \* "tableau"
    <<"t", "a", "b", "l", "e", "a", "u">>,
    \* "figma"
    <<"f", "i", "g", "m", "a">>,
    \* "ui/ux"
    <<"u", "i", "/", "u", "x">>,
    \* "agile"
    <<"a", "g", "i", "l", "e">>,
    \* "scrum"
    <<"s", "c", "r", "u", "m">>,
    \* "jira"
    <<"j", "i", "r", "a">>,
    \* "communication"
    <<"c", "o", "m", "m", "u", "n", "i", "c", "a", "t", "i", "o", "n">>,
    \* "teamwork"
    <<"t", "e", "a", "m", "w", "o", "r", "k">>,
    \* "leadership"
    <<"l", "e", "a", "d", "e", "r", "s", "h", "i", "p">>,
    \* "problem solving"
    <<"p", "r", "o", "b", "l", "e", "m", " ", "s", "o", "l", "v", "i", "n", "g">>
  >>

Digits == {"0", "1", "2", "3", "4", "5", "6", "7", "8", "9"}

\* str.upper() on one character
CharUpper(c) ==
  IF \E i \in DOMAIN LowerLetterSeq : LowerLetterSeq[i] = c
  THEN UpperLetterSeq[CHOOSE i \in DOMAIN LowerLetterSeq : LowerLetterSeq[i] = c]
  ELSE c

IsLetter(c) == CharLower(c) \in LowerLetters

\* The class \w of the regex.
IsWordChar(c) == IsLetter(c) \/ c \in Digits \/ c = "_"

\* \b at offset i of s, between s[i] and s[i + 1]: exactly one side is a
\* word character (the ends of the text are none).
WordBoundary(s, i) ==
  (i >= 1 /\ IsWordChar(s[i])) # (i < Len(s) /\ IsWordChar(s[i + 1]))

\* Variant: the phrase is searched as a substring, without boundaries.
KeywordFoundAnywhere(skill, text_lower) ==
  \E i \in 0..(Len(text_lower) - Len(skill)) :
    SubSeq(text_lower, i + 1, i + Len(skill)) = skill

\* re.search(r'\b' + re.escape(skill) + r'\b', text_lower)
KeywordFound(skill, text_lower) ==
  \E i \in 0..(Len(text_lower) - Len(skill)) :
    /\ WordBoundary(text_lower, i)
    /\ SubSeq(text_lower, i + 1, i + Len(skill)) = skill
    /\ WordBoundary(text_lower, i + Len(skill))

\* str.title(): a letter is upper case after a character that is no letter
\* and lower case after a letter.
TitleCase(s) ==
  [i \in DOMAIN s |-> IF i = 1 \/ ~IsLetter(s[i - 1]) THEN CharUpper(s[i])
                      ELSE CharLower(s[i])]

\* Step 1: keyword matching, in the order of SKILL_LIST.
KeywordSkills(text) ==
  LET text_lower == LowerChars(text)
      found == SelectSeq(SKILL_LIST, LAMBDA skill : KeywordFound(skill, text_lower))
  IN [i \in DOMAIN found |-> TitleCase(found[i])]

\* The entity is a skill: its label and its text in the skill list.
EntityIsSkill(ent) ==
  /\ ent.label \in {"ORG", "PRODUCT"}
  /\ \E s \in DOMAIN SKILL_LIST : LowerChars(SKILL_LIST[s]) = LowerChars(Strip(ent.text))

\* Variant: the entity's skill is appended without looking at the list.
RECURSIVE AddEntitiesUnchecked(_, _)
AddEntitiesUnchecked(found_skills, ents) ==
  IF ents = <<>> THEN found_skills
  ELSE AddEntitiesUnchecked(
         IF EntityIsSkill(Head(ents))
         THEN Append(found_skills, TitleCase(Strip(Head(ents).text)))
         ELSE found_skills,
         Tail(ents))

\* Step 2: for ent in doc.ents, the skill is appended if it is not in the
\* list yet.
RECURSIVE AddEntities(_, _)
AddEntities(found_skills, ents) ==
  IF ents = <<>> THEN found_skills
  ELSE LET title_name == TitleCase(Strip(Head(ents).text)) IN
       AddEntities(
         IF /\ EntityIsSkill(Head(ents))
            /\ \A j \in DOMAIN found_skills : found_skills[j] # title_name
         THEN Append(found_skills, title_name)
         ELSE found_skills,
         Tail(ents))

\* extract_skills(text), with the entities nlp(text) gives; nlp is None when
\* the language model is not installed.
ExtractSkillsOf(text, nlp, ents) ==
  IF nlp THEN AddEntities(KeywordSkills(text), ents) ELSE KeywordSkills(text)

\* The pieces the texts are made of.
SkillTokens == {
    \* "C++"
    <<"C", "+", "+">>,
    \* "C#"
    <<"C", "#">>,
    \* "C"
    <<"C">>,
    \* "React"
    <<"R", "e", "a", "c", "t">>,
    \* "PYTHON,"
    <<"P", "Y", "T", "H", "O", "N", ",">>,
    \* "Spring Boot"
    <<"S", "p", "r", "i", "n", "g", " ", "B", "o", "o", "t">>
  }

MaxWords == 2

\* The labels the entity pass gives to a piece of the text; "" for a piece
\* that is no entity.
EntityLabels == {"", "ORG", "PERSON"}

RECURSIVE JoinWith(_, _)
JoinWith(pieces, sep) ==
  IF pieces = <<>> THEN <<>>
  ELSE IF Len(pieces) = 1 THEN pieces[1]
  ELSE pieces[1] \o sep \o JoinWith(Tail(pieces), sep)

\* doc.ents: the labelled pieces, in the order of the text
EntitiesOf(pieces, labels) ==
  LET ents == [i \in DOMAIN pieces |-> [text |-> pieces[i], label |-> labels[i]]]
  IN SelectSeq(ents, LAMBDA ent : ent.label # "")

\* A call of extract_skills on a text.  What the entity pass finds in a
\* text is fixed with the text: the pass is a function of the text.
SkillsCall(text, nlp, ents) ==
  [pc |-> "called", text |-> text, nlp |-> nlp, ents |-> ents]

InitSkills ==
  /\ EmptyTables
  /\ classifier = NoClassifier
  /\ extraction = NoExtraction
  /\ \E n \in 0..MaxWords :
       \E pieces \in [1..n -> SkillTokens] :
         \/ skills = SkillsCall(JoinWith(pieces, <<" ">>), FALSE, <<>>)
         \/ \E labels \in [1..n -> EntityLabels] :
              skills = SkillsCall(JoinWith(pieces, <<" ">>), TRUE, EntitiesOf(pieces, labels))

\* extract_skills is applied to the text.
ExtractSkills ==
  /\ skills.pc = "called"
  /\ skills' = [pc |-> "done", text |-> skills.text, nlp |-> skills.nlp,
                ents |-> skills.ents,
                found_skills |-> ExtractSkillsOf(skills.text, skills.nlp, skills.ents)]
  /\ UNCHANGED <<shortlisting_vars, gap, classifier, extraction>>

\* extract_skills is applied to the same text once more.
ExtractSkillsAgain ==
  /\ skills.pc = "done"
  /\ skills' = [pc |-> "again", text |-> skills.text, nlp |-> skills.nlp,
                ents |-> skills.ents,
                found_skills |-> skills.found_skills,
                found_again |-> ExtractSkillsOf(skills.text, skills.nlp, skills.ents)]
  /\ UNCHANGED <<shortlisting_vars, gap, classifier, extraction>>

NextSkills == ExtractSkills \/ ExtractSkillsAgain

SpecSkills == InitSkills /\ [][NextSkills]_vars

\* ------------------------------------------------ upload_and_parse_resume
\* Step 3 of upload_and_parse_resume: extract_skills(text), then
\* extract_projects(text), on the same text.
MaxParseLines == 2

ParseLines == ProjectLines \ {LongTitle}

ParseTexts == UNION {[1..n -> ParseLines] : n \in 1..MaxParseLines}

\* The text is its lines joined by "\n"; the entity pass, when the language
\* model is installed, takes every line for an organisation.
InitParse ==
  /\ EmptyTables
  /\ classifier = NoClassifier
  /\ \E lines \in ParseTexts, nlp \in BOOLEAN :
       /\ skills = SkillsCall(JoinWith(lines, <<"\n">>), nlp,
                              IF nlp
                              THEN EntitiesOf(lines, [i \in DOMAIN lines |-> "ORG"])
                              ELSE <<>>)
       /\ extraction = StartExtraction(lines)

NextParse ==
  \/ ExtractSkills
  \/ skills.pc = "done" /\ NextProjects

SpecParse == InitParse /\ [][NextParse]_vars

\* Requests that are repeated after their response.
NextRepeat ==
  \/ Next
  \/ \E p \in DOMAIN run : RequestAgain(p)

SpecRepeat == Init /\ [][NextRepeat]_vars

\* ================================================================ claims
\* A result row of a scored candidate (eligibility rejections carry a reason
\* instead of the three scores).
IsScoredRow(row) == "final_score" \in DOMAIN row

\* The scored candidates' rows of the returned results, in result order.
RankedRows(p) == SelectSeq(run[p].results, IsScoredRow)

Returned(p) == run[p].pc = "done"

\* The stored application of a student for the drive of run p.
StoredApplication(p, student_id) ==
  applications[CHOOSE a \in DOMAIN applications :
                 /\ applications[a].student_id = student_id
                 /\ applications[a].drive_id = run[p].drive_id]

\* The position at which the student's application was fetched by run p.
FetchPosition(p, student_id) ==
  CHOOSE k \in 1..Len(run[p].applications) : run[p].applications[k].student_id = student_id

\* C1: when a run has returned, the scored candidate at 0-based rank i of the
\* sorted order is Shortlisted exactly if its final_score >= threshold and
\* (top_n is unset or i < top_n), and is Rejected otherwise; the stored
\* application carries the same status.
C1_StatusByRank ==
  \A p \in DOMAIN run : Returned(p) =>
    LET ranked == RankedRows(p) IN
    \A k \in 1..Len(ranked) :
      LET expected ==
            IF /\ ranked[k].final_score >= run[p].threshold
               /\ (IsNone(run[p].top_n) \/ k - 1 < ValueOf(run[p].top_n))
            THEN "Shortlisted" ELSE "Rejected"
      IN /\ ranked[k].status = expected
         /\ StoredApplication(p, ranked[k].student_id).status = expected

\* A returned run in which the cap cut off a candidate that meets the
\* threshold, one candidate is shortlisted and one sits exactly on the threshold.
C1_Witness ==
  \E p \in DOMAIN run :
    /\ Returned(p)
    /\ ~IsNone(run[p].top_n)
    /\ LET ranked == RankedRows(p) IN
       /\ \E k \in 1..Len(ranked) : /\ k - 1 >= ValueOf(run[p].top_n)
                                    /\ ranked[k].final_score = run[p].threshold
                                    /\ ranked[k].status = "Rejected"
       /\ \E k \in 1..Len(ranked) : ranked[k].status = "Shortlisted"

\* C2: when a run with top_n = k (k >= 1) has returned, the number of
\* Shortlisted results is at most k and at most the number of scored
\* candidates whose final_score meets the threshold.
C2_TopNCap ==
  \A p \in DOMAIN run :
    (Returned(p) /\ ~IsNone(run[p].top_n) /\ ValueOf(run[p].top_n) >= 1) =>
      LET res == run[p].results
          shortlisted == {k \in DOMAIN res : res[k].status = "Shortlisted"}
          meeting == {k \in DOMAIN res : /\ IsScoredRow(res[k])
                                         /\ res[k].final_score >= run[p].threshold}
      IN /\ Cardinality(shortlisted) <= ValueOf(run[p].top_n)
         /\ Cardinality(shortlisted) <= Cardinality(meeting)

\* A returned run where more candidates meet the threshold than top_n allows
\* and exactly top_n are shortlisted.
C2_Witness ==
  \E p \in DOMAIN run :
    /\ Returned(p)
    /\ ~IsNone(run[p].top_n)
    /\ LET res == run[p].results
           shortlisted == {k \in DOMAIN res : res[k].status = "Shortlisted"}
           meeting == {k \in DOMAIN res : /\ IsScoredRow(res[k])
                                          /\ res[k].final_score >= run[p].threshold}
       IN /\ Cardinality(meeting) > ValueOf(run[p].top_n)
          /\ Cardinality(shortlisted) = ValueOf(run[p].top_n)

\* C3: when a run has returned, the scored candidates' rows are in
\* non-increasing order of final_score, and rows with equal final_score are in
\* the order in which their applications were fetched.
C3_StableDescending ==
  \A p \in DOMAIN run : Returned(p) =>
    LET ranked == RankedRows(p) IN
    \A j, k \in 1..Len(ranked) : j < k =>
      /\ ranked[j].final_score >= ranked[k].final_score
      /\ ranked[j].final_score = ranked[k].final_score =>
           FetchPosition(p, ranked[j].student_id) < FetchPosition(p, ranked[k].student_id)

\* A returned run whose sort moved a later-fetched candidate ahead of an
\* earlier one and kept two equal-scored candidates in fetch order.
C3_Witness ==
  \E p \in DOMAIN run :
    /\ Returned(p)
    /\ LET ranked == RankedRows(p) IN
       /\ \E j, k \in 1..Len(ranked) :
            /\ j < k
            /\ FetchPosition(p, ranked[j].student_id) > FetchPosition(p, ranked[k].student_id)
       /\ \E j, k \in 1..Len(ranked) :
            /\ j < k
            /\ ranked[j].final_score = ranked[k].final_score

\* ---------------------------------------------- eligibility, from the tables
\* The student of a stored application.
StudentOf(a) == applications[a].student_id

HasCgpa(student_id) == ~IsNone(users[student_id].cgpa)

CgpaOf(student_id) == ValueOf(users[student_id].cgpa)

\* The largest package among the student's offer rows, 0 when there is none.
BestPriorOffer(student_id) ==
  IF offers[student_id] = {} THEN 0
  ELSE CHOOSE x \in offers[student_id] : \A y \in offers[student_id] : y <= x

\* The student's CGPA is below the drive's eligibility_cgpa.
BelowEligibility(p, student_id) ==
  CgpaOf(student_id) < drives[run[p].drive_id].eligibility_cgpa

\* The four conditions of the offer filter, on the request and the tables.
OfferMismatch(p, student_id) ==
  /\ run[p].apply_offer_filter
  /\ drives[run[p].drive_id].package > 0
  /\ BestPriorOffer(student_id) > 0
  /\ BestPriorOffer(student_id) * 17 > drives[run[p].drive_id].package * 10

\* The result rows of a student in the results of run p.
RowsOf(p, student_id) ==
  {k \in DOMAIN run[p].results : run[p].results[k].student_id = student_id}

\* The student has exactly one result row and it is an eligibility rejection
\* with the given reason.
RejectedWithReason(p, student_id, reason) ==
  /\ Cardinality(RowsOf(p, student_id)) = 1
  /\ \A k \in RowsOf(p, student_id) :
       LET row == run[p].results[k] IN
       /\ ~IsScoredRow(row)
       /\ row.status = "Rejected"
       /\ row.ai_score = 0
       /\ row.reason = reason

\* C4: when a run has returned, every application it started with whose
\* student has a CGPA below the drive's eligibility_cgpa has one result row:
\* Rejected, ai_score 0.0, reason "CGPA below eligibility", and is stored as
\* Rejected with ai_score 0.0, whatever the student's skills and offers.
C4_CgpaRejection ==
  \A p \in DOMAIN run : Returned(p) =>
    \A a \in run[p].started :
      BelowEligibility(p, StudentOf(a)) =>
        /\ RejectedWithReason(p, StudentOf(a), "CGPA below eligibility")
        /\ applications[a].status = "Rejected"
        /\ applications[a].ai_score = 0

\* A returned run with the offer filter in force that rejected, for CGPA, a
\* student who has every required skill and also an offer that is too high.
C4_Witness ==
  \E p \in DOMAIN run :
    /\ Returned(p)
    /\ \E a \in run[p].started :
         /\ BelowEligibility(p, StudentOf(a))
         /\ OfferMismatch(p, StudentOf(a))
         /\ Len(resume_metadata[StudentOf(a)]) = 1
         /\ Len(resume_metadata[StudentOf(a)][1]) = 3
         /\ RejectedWithReason(p, StudentOf(a), "CGPA below eligibility")

\* C5: when a run has returned, an application it started with whose student
\* passes the CGPA check is an offer-filter rejection (one row: Rejected,
\* ai_score 0.0, reason citing the best offer and the package) exactly if
\* apply_offer_filter is set, the package is > 0, the best prior offer is > 0
\* and best_offer * 1.7 > package; otherwise it has a scored row.
C5_OfferFilter ==
  \A p \in DOMAIN run : Returned(p) =>
    \A a \in run[p].started :
      ~BelowEligibility(p, StudentOf(a)) =>
        IF OfferMismatch(p, StudentOf(a))
        THEN /\ RejectedWithReason(p, StudentOf(a),
                  OfferReason(BestPriorOffer(StudentOf(a)), drives[run[p].drive_id].package))
             /\ applications[a].status = "Rejected"
             /\ applications[a].ai_score = 0
        ELSE /\ Cardinality(RowsOf(p, StudentOf(a))) = 1
             /\ \A k \in RowsOf(p, StudentOf(a)) : IsScoredRow(run[p].results[k])

\* A returned run with the filter in force that rejected one student for an
\* offer and scored another student who also holds an offer.
C5_Witness ==
  \E p \in DOMAIN run :
    /\ Returned(p)
    /\ run[p].apply_offer_filter
    /\ \E a, b \in run[p].started :
         /\ ~BelowEligibility(p, StudentOf(a))
         /\ OfferMismatch(p, StudentOf(a))
         /\ \E k \in RowsOf(p, StudentOf(a)) : ~IsScoredRow(run[p].results[k])
         /\ ~BelowEligibility(p, StudentOf(b))
         /\ BestPriorOffer(StudentOf(b)) > 0
         /\ \E k \in RowsOf(p, StudentOf(b)) : IsScoredRow(run[p].results[k])

\* The applications that run p has already taken through the eligibility checks.
Processed(p) ==
  {run[p].applications[k].id : k \in 1..(IF run[p].pc = "loop" THEN run[p].next - 1
                                          ELSE Len(run[p].applications))}

\* C6: at every point of a run, an application that has been through the
\* eligibility checks and fails one of them (CGPA or offer) is not among the
\* scored candidates, is not stored as Shortlisted, has exactly one rejection
\* entry, with ai_score 0.0 and a non-empty reason, and every result row of
\* it is that rejection.
C6_FilteredNeverScored ==
  \A p \in DOMAIN run : run[p].pc \in {"loop", "decide", "done", "responded"} =>
    \A a \in Processed(p) :
      (BelowEligibility(p, StudentOf(a)) \/ OfferMismatch(p, StudentOf(a))) =>
        /\ \A k \in DOMAIN run[p].scored_candidates :
             run[p].scored_candidates[k].app_id # a
        /\ applications[a].status # "Shortlisted"
        /\ Cardinality({k \in DOMAIN run[p].rejected_results :
                          run[p].rejected_results[k].student_id = StudentOf(a)}) = 1
        /\ \A k \in DOMAIN run[p].rejected_results :
             run[p].rejected_results[k].student_id = StudentOf(a) =>
               /\ run[p].rejected_results[k].ai_score = 0
               /\ run[p].rejected_results[k].reason # ""
        /\ \A k \in RowsOf(p, StudentOf(a)) :
             /\ ~IsScoredRow(run[p].results[k])
             /\ run[p].results[k].status = "Rejected"
             /\ run[p].results[k].ai_score = 0
             /\ run[p].results[k].reason # ""

\* A returned run that shortlisted someone and rejected one student for CGPA
\* and another for an offer.
C6_Witness ==
  \E p \in DOMAIN run :
    /\ Returned(p)
    /\ \E k \in DOMAIN run[p].results : run[p].results[k].status = "Shortlisted"
    /\ \E a, b \in Processed(p) :
         /\ BelowEligibility(p, StudentOf(a))
         /\ ~BelowEligibility(p, StudentOf(b))
         /\ OfferMismatch(p, StudentOf(b))
         /\ RowsOf(p, StudentOf(a)) # {}
         /\ RowsOf(p, StudentOf(b)) # {}

\* ------------------------------------------------- scoring, from the tables
\* The drive's required skills and the student's resume skills.
RequiredSkills(p) == drives[run[p].drive_id].required_skills

ResumeSkills(student_id) ==
  IF resume_metadata[student_id] = <<>> THEN <<>> ELSE resume_metadata[student_id][1]

\* The lowercase forms of the skills of a list, as a set.
LowerSet(list) == {Lower(list[k]) : k \in DOMAIN list}

\* The entries (positions) of the required list found, ignoring case, among
\* the student's skills.
MatchedEntries(p, student_id) ==
  {k \in DOMAIN RequiredSkills(p) :
     \E j \in DOMAIN ResumeSkills(student_id) :
       Lower(RequiredSkills(p)[k]) = Lower(ResumeSkills(student_id)[j])}

\* n is a nearest multiple-of-1/Scale approximation of num/den: |n - num/den| <= 1/2.
IsNearest(n, num, den) ==
  /\ 2 * (n * den - num) <= den
  /\ 2 * (num - n * den) <= den

\* C7 as stated: the reported skill_score of every scored candidate is the
\* size of the case-insensitive intersection of the required skills with the
\* candidate's skills (as sets) over the number of required skills, to the 4
\* decimals reported, and 1.0 when no skill is required.
C7_AsStated ==
  \A p \in DOMAIN run : Returned(p) =>
    \A k \in DOMAIN run[p].results :
      LET row == run[p].results[k] IN
      IsScoredRow(row) =>
        IF RequiredSkills(p) = <<>> THEN row.skill_score = 10000
        ELSE IsNearest(row.skill_score,
               10000 * Cardinality(LowerSet(RequiredSkills(p))
                                     \cap LowerSet(ResumeSkills(row.student_id))),
               Len(RequiredSkills(p)))

\* C7 amended: the reported skill_score of every scored candidate is the
\* number of entries of the required_skills list (each entry counted, also
\* entries that differ only in case) whose lowercase form is among the
\* candidate's lowercased skills, over the length of the list, rounded to 4
\* decimals; it is 1.0 when the list is empty.
C7_SkillScorePerEntry ==
  \A p \in DOMAIN run : Returned(p) =>
    \A k \in DOMAIN run[p].results :
      LET row == run[p].results[k] IN
      IsScoredRow(row) =>
        IF RequiredSkills(p) = <<>> THEN row.skill_score = 10000
        ELSE IsNearest(row.skill_score,
               10000 * Cardinality(MatchedEntries(p, row.student_id)),
               Len(RequiredSkills(p)))

\* A returned run on a drive whose list has two entries differing only in
\* case, with a scored candidate that matches those two but not the third,
\* through a skill written in another case than the requirement.
C7_Witness ==
  \E p \in DOMAIN run :
    /\ Returned(p)
    /\ Cardinality(LowerSet(RequiredSkills(p))) < Len(RequiredSkills(p))
    /\ \E k \in DOMAIN run[p].results :
         LET row == run[p].results[k] IN
         /\ IsScoredRow(row)
         /\ row.skill_score = 6667
         /\ Cardinality(MatchedEntries(p, row.student_id)) = 2
         /\ \E j \in DOMAIN ResumeSkills(row.student_id) :
              \A i \in DOMAIN RequiredSkills(p) :
                ResumeSkills(row.student_id)[j] # RequiredSkills(p)[i]

\* C8 as stated: the final_score of every scored candidate is
\* 0.6 * skill_score + 0.4 * cgpa_score rounded to 4 decimals, taken on the
\* skill_score and cgpa_score reported in the same row.
C8_AsStated ==
  \A p \in DOMAIN run : Returned(p) =>
    \A k \in DOMAIN run[p].results :
      LET row == run[p].results[k] IN
      IsScoredRow(row) =>
        IsNearest(row.final_score, 6 * row.skill_score + 4 * row.cgpa_score, 10)

\* C8 amended: the final_score of every scored candidate is
\* 0.6 * s + 0.4 * c rounded to 4 decimals, where s is the unrounded skill
\* fraction and c the unrounded cgpa / 10; the skill_score and cgpa_score
\* reported in the row are s and c each rounded to 4 decimals.
C8_FinalScoreOfUnrounded ==
  \A p \in DOMAIN run : Returned(p) =>
    \A k \in DOMAIN run[p].results :
      LET row == run[p].results[k]
          n == IF RequiredSkills(p) = <<>> THEN 1 ELSE Len(RequiredSkills(p))
          m == IF RequiredSkills(p) = <<>> THEN 1
               ELSE Cardinality(MatchedEntries(p, row.student_id))
          cg == CgpaOf(row.student_id)
      IN IsScoredRow(row) =>
           \* 0.6*(m/n) + 0.4*(cg/100000), in units of 1e-4, over 100*n
           /\ IsNearest(row.final_score, 600000 * m + 4 * cg * n, 100 * n)
           /\ IsNearest(row.skill_score, 10000 * m, n)
           /\ IsNearest(row.cgpa_score, cg, 10)

\* A returned run with a scored candidate whose final_score differs from the
\* rounded combination of the two reported scores.
C8_Witness ==
  \E p \in DOMAIN run :
    /\ Returned(p)
    /\ \E k \in DOMAIN run[p].results :
         LET row == run[p].results[k] IN
         /\ IsScoredRow(row)
         /\ ~IsNearest(row.final_score, 6 * row.skill_score + 4 * row.cgpa_score, 10)

\* C9: in every result row of a returned run the scores lie in [0, 1]:
\* skill_score, cgpa_score and final_score of a scored candidate, ai_score of
\* an eligibility rejection.
C9_ScoresInUnitInterval ==
  \A p \in DOMAIN run : Returned(p) =>
    \A k \in DOMAIN run[p].results :
      LET row == run[p].results[k] IN
      IF IsScoredRow(row)
      THEN /\ 0 <= row.skill_score /\ row.skill_score <= 10000
           /\ 0 <= row.cgpa_score /\ row.cgpa_score <= 10000
           /\ 0 <= row.final_score /\ row.final_score <= 10000
      ELSE row.ai_score = 0

\* Every result row of a returned run has a status Shortlisted or Rejected.
Decided(row) == row.status \in {"Shortlisted", "Rejected"}

\* C10: when a run has returned, every application of the drive that was
\* Applied when the run started has exactly one row in results, with status
\* Shortlisted or Rejected, and is no longer stored as Applied.
C10_EveryApplicationDecided ==
  \A p \in DOMAIN run : Returned(p) =>
    \A a \in DOMAIN applications :
      a \in run[p].started =>
        /\ Cardinality(RowsOf(p, StudentOf(a))) = 1
        /\ \A k \in RowsOf(p, StudentOf(a)) : Decided(run[p].results[k])
        /\ applications[a].status # "Applied"

\* A returned run that started with some but not all applications of the
\* drive in status Applied and produced a Shortlisted, a scored Rejected and
\* an eligibility-rejected row.
C10_Witness ==
  \E p \in DOMAIN run :
    /\ Returned(p)
    /\ Cardinality(run[p].started) >= 2
    /\ \E a \in DOMAIN applications :
         /\ applications[a].drive_id = run[p].drive_id
         /\ a \notin run[p].started
    /\ \E j, k \in DOMAIN run[p].results :
         /\ run[p].results[j].status = "Shortlisted"
         /\ ~IsScoredRow(run[p].results[k])

\* ------------------------------------------------------------ the totals
\* The number of rows of a result list that carry the given status.
CountStatus(results, status) ==
  Cardinality({k \in DOMAIN results : results[k].status = status})

\* C11: in the dictionary a run returns, shortlisted and rejected are the
\* numbers of rows of results with status Shortlisted and Rejected
\* (eligibility rejections included), and threshold, top_n and
\* offer_filter_applied are the arguments of the call.
C11_TotalsAndEcho ==
  \A p \in DOMAIN run : Returned(p) =>
    LET res == ValueOf(run[p].result) IN
    /\ res.shortlisted = CountStatus(res.results, "Shortlisted")
    /\ res.rejected = CountStatus(res.results, "Rejected")
    /\ res.threshold = run[p].threshold
    /\ res.top_n = run[p].top_n
    /\ res.offer_filter_applied = run[p].apply_offer_filter

\* A returned dictionary with a shortlisted row, an eligibility rejection and
\* a scored rejection, for a call with top_n set and the offer filter on.
C11_Witness ==
  \E p \in DOMAIN run :
    /\ Returned(p)
    /\ LET res == ValueOf(run[p].result) IN
       /\ res.shortlisted >= 1
       /\ res.offer_filter_applied
       /\ ~IsNone(res.top_n)
       /\ \E j, k \in DOMAIN res.results :
            /\ ~IsScoredRow(res.results[j])
            /\ IsScoredRow(res.results[k])
            /\ res.results[k].status = "Rejected"

\* ---------------------------------------------------------- the writes
\* The entries of the write history of run p that update application a.
WritesTo(p, a) == {k \in DOMAIN run[p].writes : run[p].writes[k].app_id = a}

\* C12: at every point of a run, every update it has made replaced the status
\* Applied by Shortlisted or Rejected and no application has been updated
\* twice; when the run has returned, every application it fetched has been
\* updated exactly once.
C12_WrittenOnce ==
  \A p \in DOMAIN run :
    /\ \A k \in DOMAIN run[p].writes :
         /\ run[p].writes[k].from = "Applied"
         /\ run[p].writes[k].to \in {"Shortlisted", "Rejected"}
    /\ \A a \in DOMAIN applications : Cardinality(WritesTo(p, a)) <= 1
    /\ Returned(p) =>
         \A k \in DOMAIN run[p].applications :
           Cardinality(WritesTo(p, run[p].applications[k].id)) = 1

\* A returned run that updated one application to Shortlisted, rejected one
\* in the eligibility checks, and left alone an application of the drive that
\* was not Applied.
C12_Witness ==
  \E p \in DOMAIN run :
    /\ Returned(p)
    /\ \E j, k \in DOMAIN run[p].writes :
         /\ run[p].writes[j].to = "Shortlisted"
         /\ run[p].writes[k].to = "Rejected"
         /\ \E n \in DOMAIN run[p].rejected_results :
              run[p].rejected_results[n].student_id = StudentOf(run[p].writes[k].app_id)
    /\ \E a \in DOMAIN applications :
         /\ applications[a].drive_id = run[p].drive_id
         /\ applications[a].status = "Placed"
         /\ WritesTo(p, a) = {}

\* --------------------------------------------------- repeated invocation
\* Run p is a repetition that has returned: previous holds what the
\* invocation before it returned.
RepeatedAndReturned(p) == Returned(p) /\ ~IsNone(run[p].previous)

\* C13 as stated: a second invocation with the same arguments, nothing in
\* between, returns the same results and the same shortlisted and rejected
\* totals as the first.
C13_AsStated ==
  \A p \in DOMAIN run : RepeatedAndReturned(p) =>
    LET first == ValueOf(run[p].previous)
        second == ValueOf(run[p].result)
    IN /\ second.results = first.results
       /\ second.shortlisted = first.shortlisted
       /\ second.rejected = first.rejected

\* C13 amended: a second invocation with the same arguments, nothing in
\* between, finds no application in status Applied: it returns empty results
\* with total, shortlisted and rejected 0, writes nothing, and the stored
\* status and ai_score of every application decided by the first invocation
\* are still the ones the first invocation reported.
C13_SecondRunEmpty ==
  \A p \in DOMAIN run : RepeatedAndReturned(p) =>
    LET first == ValueOf(run[p].previous)
        second == ValueOf(run[p].result)
    IN /\ second.results = <<>>
       /\ second.total = 0 /\ second.shortlisted = 0 /\ second.rejected = 0
       /\ second.threshold = first.threshold /\ second.top_n = first.top_n
       /\ second.offer_filter_applied = first.offer_filter_applied
       /\ run[p].writes = <<>>
       /\ \A k \in DOMAIN first.results :
            LET row == first.results[k]
                stored == StoredApplication(p, row.student_id)
            IN /\ stored.status = row.status
               /\ stored.ai_score = IF IsScoredRow(row) THEN row.final_score ELSE row.ai_score

\* A repetition that has returned after a first invocation that shortlisted
\* one candidate and rejected another.
C13_Witness ==
  \E p \in DOMAIN run :
    /\ RepeatedAndReturned(p)
    /\ ValueOf(run[p].previous).shortlisted >= 1
    /\ ValueOf(run[p].previous).rejected >= 1

\* ------------------------------------------------- persistence and mail
\* Run p is inside run_shortlisting (entered, not yet returned).
InsideRun(p) == run[p].pc \in {"fetch", "loop", "decide"}

\* C14 as stated: run_shortlisting only returns decisions; while it runs the
\* stored application records stay as they are and nothing is mailed.
C14_AsStated ==
  [][\A p \in DOMAIN run :
       InsideRun(p) => (applications' = applications /\ outbox' = outbox)]_vars

\* C14 amended: run_shortlisting itself writes the status and ai_score of
\* every application it processes, before it returns (when it has returned,
\* each application it fetched carries the reported decision and nothing has
\* been mailed); it sends no notification: the shortlist e-mails, one to each
\* Shortlisted candidate and none to a Rejected one, are sent by the caller
\* after the decisions are returned, and the caller writes no application.
C14_WritesInsideMailsAfter ==
  \A p \in DOMAIN run :
    /\ (InsideRun(p) \/ Returned(p)) => outbox = {}
    /\ Returned(p) =>
         \A k \in DOMAIN run[p].applications :
           LET a == run[p].applications[k].id IN
           /\ applications[a].status \in {"Shortlisted", "Rejected"}
           /\ Cardinality(WritesTo(p, a)) = 1
    /\ run[p].pc = "responded" =>
         /\ \A a \in DOMAIN applications :
              Cardinality(WritesTo(p, a)) = IF a \in run[p].started THEN 1 ELSE 0
         /\ \A k \in DOMAIN run[p].results :
              LET row == run[p].results[k] IN
              (EmailOf(row.student_id) \in outbox) <=> (row.status = "Shortlisted")

\* A request that has been answered after its run shortlisted one candidate
\* and rejected another: the mail went to the first only.
C14_Witness ==
  \E p \in DOMAIN run :
    /\ run[p].pc = "responded"
    /\ \E j, k \in DOMAIN run[p].results :
         /\ run[p].results[j].status = "Shortlisted"
         /\ EmailOf(run[p].results[j].student_id) \in outbox
         /\ IsScoredRow(run[p].results[k])
         /\ run[p].results[k].status = "Rejected"
         /\ EmailOf(run[p].results[k].student_id) \notin outbox

\* ------------------------------------------------------- unknown drive
\* Run p was called with a drive id that is not in the drives table.
UnknownDrive(p) == run[p].pc # "idle" /\ run[p].drive_id \notin DOMAIN drives

\* C15: a call with an unknown drive id returns the error "Drive not found",
\* which the route turns into a 404 with that detail; no candidate is fetched
\* or scored, no application's status or ai_score is written and nothing is
\* mailed.
C15_DriveNotFound ==
  \A p \in DOMAIN run : UnknownDrive(p) =>
    /\ run[p].pc \in {"error", "failed"}
    /\ run[p].error = Some("Drive not found")
    /\ IsNone(run[p].result)
    /\ run[p].pc = "failed" =>
         run[p].http_error = Some([status_code |-> 404, detail |-> "Drive not found"])
    /\ run[p].applications = <<>>
    /\ run[p].scored_candidates = <<>>
    /\ run[p].writes = <<>>
    /\ \A a \in DOMAIN applications :
         /\ applications[a].ai_score = 0
         /\ applications[a].status \in {"Applied", "Placed"}
    /\ outbox = {}

\* A request for an unknown drive that has been answered with the 404 while
\* applications of students are waiting in status Applied.
C15_Witness ==
  \E p \in DOMAIN run :
    /\ UnknownDrive(p)
    /\ run[p].pc = "failed"
    /\ \E a \in DOMAIN applications : applications[a].status = "Applied"

\* ------------------------------------------------------------ skill gap
\* The positions of the required list whose skill is, ignoring case, among
\* the skills of the student's resume.
PresentPositions(student_id, drive_id) ==
  {k \in DOMAIN drives[drive_id].required_skills :
     Lower(drives[drive_id].required_skills[k]) \in LowerSet(ResumeSkills(student_id))}

\* list is the elements of source at the positions pos, in increasing position.
IsSublistAt(list, source, pos) ==
  /\ Len(list) = Cardinality(pos)
  /\ \A j \in 1..Len(list) :
       list[j] = source[CHOOSE k \in pos : Cardinality({i \in pos : i <= k}) = j]

\* C16: in the answer of analyze_skill_gap, matched_skills is the required
\* skills that are present, ignoring case, in the student's skills and
\* missing_skills is those that are absent, both in the order of the
\* requirement list; every position of the list is in exactly one of the two.
C16_MatchedAndMissing ==
  gap.pc = "done" =>
    LET required == drives[gap.drive_id].required_skills
        present == PresentPositions(gap.student_id, gap.drive_id)
    IN /\ IsSublistAt(gap.matched_skills, required, present)
       /\ IsSublistAt(gap.missing_skills, required, DOMAIN required \ present)
       /\ Len(gap.matched_skills) + Len(gap.missing_skills) = Len(required)

\* An answer with two matched skills and one missing, one of the matched
\* spelled with another case in the resume than in the requirement list.
C16_Witness ==
  /\ gap.pc = "done"
  /\ Len(gap.matched_skills) = 2
  /\ Len(gap.missing_skills) = 1
  /\ \E k \in DOMAIN gap.matched_skills :
       \A j \in DOMAIN ResumeSkills(gap.student_id) :
         ResumeSkills(gap.student_id)[j] # gap.matched_skills[k]

\* C17 as stated: match_percentage is 100.0 for an empty requirement list and
\* otherwise equals 100 * |matched| / |required|.
C17_AsStated ==
  gap.pc = "done" =>
    LET required == drives[gap.drive_id].required_skills IN
    IF required = <<>> THEN gap.match_percentage = 10000
    ELSE gap.match_percentage * Len(required) = 100 * 100 * Len(gap.matched_skills)

\* C17 amended: match_percentage is 100.0 for an empty requirement list and
\* otherwise 100 * |matched| / |required| rounded to 2 decimals.
C17_PercentageRounded ==
  gap.pc = "done" =>
    LET required == drives[gap.drive_id].required_skills IN
    IF required = <<>> THEN gap.match_percentage = 10000
    ELSE IsNearest(gap.match_percentage,
                   100 * 100 * Cardinality(PresentPositions(gap.student_id, gap.drive_id)),
                   Len(required))

\* An answer whose percentage is not a whole multiple of 0.01: two of three.
C17_Witness ==
  /\ gap.pc = "done"
  /\ Len(drives[gap.drive_id].required_skills) = 3
  /\ Len(gap.matched_skills) = 2
  /\ gap.match_percentage = 6667

\* -------------------------------------------------------- line classifier
\* The first word of a stripped line: its leading letters.
RECURSIVE FirstWord(_)
FirstWord(stripped) ==
  IF stripped # <<>> /\ CharLower(Head(stripped)) \in LowerLetters
  THEN <<Head(stripped)>> \o FirstWord(Tail(stripped))
  ELSE <<>>

\* The listed action verbs and article/pronoun starters, as words.
ListedWords == {Strip(action_verbs[v]) : v \in DOMAIN action_verbs}

\* The conditions under which a line is a Title: non-blank, no bullet or
\* symbol marker first, no lowercase letter first, a first word that is not
\* listed, and at most 80 characters or a separator.
TitleConditions(line) ==
  LET stripped == Strip(line) IN
  /\ stripped # <<>>
  /\ stripped[1] \notin BulletChars
  /\ stripped[1] \notin LowerLetters
  /\ FirstWord(stripped) \notin ListedWords
  /\ \/ Len(stripped) <= 80
     \/ \E i \in DOMAIN stripped : stripped[i] \in {"|", "U+2013", "U+2014", ":"}

\* C18: the classifier labels a line Title exactly when the line is
\* non-blank, does not begin with a bullet/symbol marker or a lowercase
\* letter, its first word is not a listed action verb or article/pronoun
\* starter, and it is at most 80 characters long or contains one of the
\* separators; every other line is labelled Description.
C18_TitleExactlyWhen ==
  classifier.pc = "done" =>
    (classifier.description = FALSE <=> TitleConditions(classifier.line))

\* ------------------------------------------------------ project extractor
\* The lines of the text that match a project-section alias, and those that
\* match another section header.
IsAliasLine(k) == MatchesProjectSection(Strip(extraction.lines[k]))
IsHeaderLine(k) ==
  /\ ~IsAliasLine(k)
  /\ MatchesSectionHeader(Strip(extraction.lines[k]))

\* Line k comes after the project-section line j, with no other section
\* header after j up to and including k.
OpenFrom(j, k) ==
  /\ j < k
  /\ IsAliasLine(j)
  /\ \A m \in (j + 1)..k : ~IsHeaderLine(m)

\* The lines inside a projects region when every project-section line opens
\* one.
RegionOfEveryAlias ==
  {k \in DOMAIN extraction.lines :
     ~IsAliasLine(k) /\ \E j \in DOMAIN extraction.lines : OpenFrom(j, k)}

\* The lines after the first project-section line of the text, up to the
\* first other section header that follows it.
RegionOfFirstAlias ==
  {k \in DOMAIN extraction.lines :
     /\ ~IsAliasLine(k)
     /\ \E j \in DOMAIN extraction.lines :
          /\ OpenFrom(j, k)
          /\ \A i \in 1..(j - 1) : ~IsAliasLine(i)}

\* The name each line would give to a project.
NameOfLine == [k \in DOMAIN extraction.lines |-> Truncate(Strip(extraction.lines[k]))]

ProjectNames == [i \in DOMAIN extraction.projects |-> extraction.projects[i].name]

\* The lines the classifier labels Title.
LabelledTitle == {k \in DOMAIN extraction.lines : ~IsDescriptionLine(extraction.lines[k])}

\* C19 as stated: the lines after every project-section line, up to the next
\* other section header, are inside the region and contribute projects, also
\* after an earlier region was closed: the projects returned are those of the
\* lines labelled Title in the region of every project-section line.
C19_AsStated ==
  extraction.pc = "done" =>
    IsSublistAt(ProjectNames, NameOfLine, RegionOfEveryAlias \cap LabelledTitle)

\* C19 amended: the lines after the first project-section line, up to the
\* first other section header after it, are inside the region and contribute
\* projects; that header ends the scan, and a project-section line after it
\* opens no region: the projects returned are those of the lines labelled
\* Title in the region of the first project-section line.
C19_RegionOfFirstAlias ==
  extraction.pc = "done" =>
    IsSublistAt(ProjectNames, NameOfLine, RegionOfFirstAlias \cap LabelledTitle)

\* A returned extraction that found a project in the first region, whose
\* region was closed by another header, with a project-section line later.
C19_Witness ==
  /\ extraction.pc = "done"
  /\ extraction.projects # <<>>
  /\ \E j, m, k \in DOMAIN extraction.lines :
       /\ j < m /\ m < k
       /\ IsAliasLine(j) /\ IsHeaderLine(m) /\ IsAliasLine(k)

\* C20: extract_projects returns one record per Title line inside the
\* projects region, in the order of those lines, each named by the stripped
\* line cut to 150 characters, the project in progress at the end of the
\* input or of the region included.
C20_OneRecordPerTitle ==
  extraction.pc = "done" =>
    IsSublistAt(ProjectNames, NameOfLine,
                {k \in RegionOfFirstAlias : TitleConditions(extraction.lines[k])})

\* The lines of the region that follow line k up to the next line of the
\* region that meets the conditions of a Title, and do not meet them
\* themselves: the Description lines of the project begun at line k.
DescriptionLinesOf(k) ==
  {m \in RegionOfFirstAlias :
     /\ k < m
     /\ \A t \in RegionOfFirstAlias : (k < t /\ t <= m) => ~TitleConditions(extraction.lines[t])}

\* The texts of the lines at the positions pos, each without its bullet
\* marker, in input order and joined by " • " (a line with no text left adds
\* nothing).
RECURSIVE JoinedTexts(_)
JoinedTexts(pos) ==
  IF pos = {} THEN <<>>
  ELSE LET m == CHOOSE x \in pos : \A y \in pos : y <= x
           before == JoinedTexts(pos \ {m})
           clean == BulletClean(Strip(extraction.lines[m]))
       IN IF clean = <<>> THEN before
          ELSE IF before = <<>> THEN clean
          ELSE before \o <<" ", "U+2022", " ">> \o clean

\* C21: the description of each returned project is the texts of the
\* Description lines between its Title line and the next Title line (or the
\* end of the region), bullet markers stripped, in input order, joined by
\* " • "; it is "" when there is no such line.
C21_DescriptionOfProject ==
  extraction.pc = "done" =>
    \A i \in DOMAIN extraction.projects :
      \E k \in RegionOfFirstAlias :
        /\ TitleConditions(extraction.lines[k])
        /\ extraction.projects[i].name = NameOfLine[k]
        /\ extraction.projects[i].desc = JoinedTexts(DescriptionLinesOf(k))

\* ------------------------------------------------------- skill extractor
\* A character that continues a token: a word character or one of the
\* symbols the vocabulary phrases are written with.
IsTokenChar(c) == IsWordChar(c) \/ c \in {"+", "#", ".", "/", "-"}

\* The phrase stands alone in the text: it occurs there with no token
\* character right before it and none right after it.
StandsAlone(phrase, text) ==
  \E i \in 0..(Len(text) - Len(phrase)) :
    /\ SubSeq(text, i + 1, i + Len(phrase)) = phrase
    /\ i >= 1 => ~IsTokenChar(text[i])
    /\ i + Len(phrase) < Len(text) => ~IsTokenChar(text[i + Len(phrase) + 1])

FoundSkills == {skills.found_skills[j] : j \in DOMAIN skills.found_skills}

\* C22: extract_skills returns a vocabulary phrase, title-cased, if and only
\* if the lowercased text contains it as a whole word or phrase: every
\* phrase standing alone is returned, "c++" and "c#" included, and "c" is
\* not returned when it occurs only inside a longer token.
C22_WholePhraseExactly ==
  skills.pc = "done" =>
    FoundSkills = {TitleCase(SKILL_LIST[s]) : s \in
                     {x \in DOMAIN SKILL_LIST :
                        StandsAlone(SKILL_LIST[x], LowerChars(skills.text))}}

NoVocabularyPhrase ==
  \A s \in DOMAIN SKILL_LIST :
    ~KeywordFoundAnywhere(SKILL_LIST[s], LowerChars(skills.text))

\* The text has no projects section: none of its lines matches a
\* project-section alias.
NoProjectsSection ==
  \A k \in DOMAIN extraction.lines : ~MatchesProjectSection(Strip(extraction.lines[k]))

\* C24: for the empty text, and for a text with no projects section and no
\* vocabulary phrase, extract_skills and extract_projects both return and
\* return empty lists.
C24_NothingToExtract ==
  (skills.text = <<>> \/ (NoVocabularyPhrase /\ NoProjectsSection)) =>
    /\ skills.pc \in {"called", "done"}
    /\ extraction.pc \in {"scan", "done"}
    /\ skills.pc = "done" => skills.found_skills = <<>>
    /\ extraction.projects = <<>>

\* Both extractions have returned for a text that is not empty, holds lines
\* that are titles, and has neither a projects section nor a vocabulary
\* phrase; the entity pass was made.
C24_Witness ==
  /\ skills.pc = "done"
  /\ extraction.pc = "done"
  /\ skills.nlp
  /\ skills.text # <<>>
  /\ NoVocabularyPhrase
  /\ NoProjectsSection
  /\ \E k \in DOMAIN extraction.lines : ~IsDescriptionLine(extraction.lines[k])

\* Both extractions have returned for the empty text.
C24_WitnessEmpty ==
  /\ skills.pc = "done"
  /\ extraction.pc = "done"
  /\ skills.text = <<>>

\* ------------------------------------------------- stored and reported
\* C30: when a single run has returned without error, the stored status and
\* ai_score of every application listed in results are the status and score
\* reported for it: ai_score 0.0 for an eligibility rejection, final_score
\* for a scored candidate.
C30_StoredAsReported ==
  \A p \in DOMAIN run : Returned(p) =>
    \A k \in DOMAIN run[p].results :
      LET row == run[p].results[k]
          stored == StoredApplication(p, row.student_id)
      IN /\ stored.status = row.status
         /\ IF IsScoredRow(row)
            THEN stored.ai_score = row.final_score
            ELSE row.ai_score = 0 /\ stored.ai_score = 0

\* A returned run whose results hold a Shortlisted candidate with a positive
\* score, a scored candidate that was Rejected, and an eligibility rejection.
C30_Witness ==
  \E p \in DOMAIN run :
    /\ Returned(p)
    /\ \E i, j, k \in DOMAIN run[p].results :
         /\ IsScoredRow(run[p].results[i])
         /\ run[p].results[i].status = "Shortlisted"
         /\ run[p].results[i].final_score > 0
         /\ IsScoredRow(run[p].results[j])
         /\ run[p].results[j].status = "Rejected"
         /\ run[p].results[j].final_score > 0
         /\ ~IsScoredRow(run[p].results[k])

\* ------------------------------------------------------ concurrent runs
\* The updates of application a by all the runs.
AllWritesTo(a) ==
  UNION {{<<p, k>> : k \in {j \in DOMAIN run[p].writes : run[p].writes[j].app_id = a}} :
           p \in DOMAIN run}

\* C29: under any interleaving of two concurrent run_shortlisting calls on
\* the same drive, no application's stored status is written more than once,
\* and no application goes from Shortlisted to Rejected or from Rejected to
\* Shortlisted.
C29_WrittenOnceByBoth ==
  /\ \A a \in DOMAIN applications : Cardinality(AllWritesTo(a)) <= 1
  /\ \A p \in DOMAIN run : \A k \in DOMAIN run[p].writes :
       LET w == run[p].writes[k] IN
       ~(w.from = "Shortlisted" /\ w.to = "Rejected") /\ ~(w.from = "Rejected" /\ w.to = "Shortlisted")

\* ----------------------------------------------------------- applying
\* C26: after any sequence of apply_to_drive requests, two interleaving
\* requests of one student for one drive included, there is at most one
\* application per (student, drive) pair; a repeated application is refused
\* with "You have already applied to this drive"; every new application
\* starts as Applied with ai_score 0.0.
C26_OneApplicationPerPair ==
  /\ \A a, b \in DOMAIN applications :
       (/\ applications[a].student_id = applications[b].student_id
        /\ applications[a].drive_id = applications[b].drive_id) => a = b
  /\ \A q \in DOMAIN requests :
       /\ requests[q].pc = "refused" =>
            requests[q].http_error = [status_code |-> 400,
                                      detail |-> "You have already applied to this drive"]
       /\ requests[q].pc = "created" =>
            /\ applications[requests[q].application_id].status = "Applied"
            /\ applications[requests[q].application_id].ai_score = 0

\* ------------------------------------------------------------ placing
\* C28: mark_placed moves an application to Placed only from Shortlisted:
\* after any sequence of apply, shortlisting run and mark_placed operations,
\* no application that is Applied or Rejected becomes Placed.
C28_PlacedOnlyFromShortlisted ==
  [][\A a \in DOMAIN applications :
       applications[a].status \in {"Applied", "Rejected"} =>
         applications'[a].status # "Placed"]_vars

\* --------------------------------------------------- what a run leaves alone
\* C25: a run of run_shortlisting for drive d processes only applications
\* of d whose status is Applied: no step of the run changes the status or
\* ai_score of an application of another drive, or of an application of d
\* that is already Shortlisted, Rejected, Offered or Placed, so a decision
\* of an earlier run is never changed by a later run.
C25_OnlyAppliedOfTheDrive ==
  [][\A p \in DOMAIN run :
       InsideRun(p) =>
         \A a \in DOMAIN applications :
           (\/ applications[a].drive_id # run[p].drive_id
            \/ applications[a].status # "Applied") =>
             /\ applications'[a].status = applications[a].status
             /\ applications'[a].ai_score = applications[a].ai_score]_vars

\* A second run for a drive has decided a new application while an
\* application shortlisted by the first run, an application that is Offered
\* or Placed and an application of the other drive are stored.
C25_Witness ==
  \E p \in DOMAIN run :
    /\ run[p].pc = "done"
    /\ run[p].invocation = 2
    /\ Len(run[p].writes) > 0
    /\ \E a \in DOMAIN applications :
         /\ applications[a].drive_id = run[p].drive_id
         /\ applications[a].status = "Shortlisted"
         /\ a \notin run[p].started
    /\ \E a \in DOMAIN applications :
         applications[a].status \in {"Offered", "Placed"}
    /\ \E a \in DOMAIN applications : applications[a].drive_id # run[p].drive_id

\* ------------------------------------------------------ the named resume
\* The application row with the given id.
ApplicationOf(app_id) ==
  applications[CHOOSE a \in DOMAIN applications : applications[a].id = app_id]

\* C27: run_shortlisting scores each application with the extracted skills
\* of the resume that the application's resume_id names, also when the
\* student has uploaded several resumes: the run does not fail on such a
\* student, and the skill score of every scored application that names a
\* resume is the score of that resume's skills.
C27_ScoredWithNamedResume ==
  \A p \in DOMAIN run :
    /\ run[p].pc # "raised"
    /\ \A k \in DOMAIN run[p].scored_candidates :
         LET c == run[p].scored_candidates[k]
             app == ApplicationOf(c.app_id)
         IN IsNone(app.resume_id) \/
            c.skill_score =
              RoundedSkillScore(SkillScore(run[p].required_lower,
                LowerAll(resume_metadata[c.student_id][ValueOf(app.resume_id)])))

====
